---------------------------- MODULE Spec2Model ----------------------------
(***************************************************************************)
(* Model of the Peloton system catalog (catalog.cpp) and of the            *)
(* timestamp checkpoint manager (timestamp_checkpoint_manager.cpp).        *)
(*                                                                         *)
(* The specifications share the variables:                                 *)
(*   Spec                 the checkpoint thread, crashes and recovery      *)
(*   SpecSnapshot         checkpoints while the catalog changes            *)
(*   SpecStop             stopping the checkpoint thread, with fairness    *)
(*   SpecVisible          IsVisible over all header values                 *)
(*   SpecCatalog          the DDL operations of the catalog, OID allocation*)
(*   SpecBootstrap        Bootstrap and the system's OIDs                  *)
(*   SpecTable            tables, indexes, triggers and layouts            *)
(*   SpecThreads          CreateDatabase and DropDatabase by two threads   *)
(*   SpecBootstrapThreads Bootstrap called by two threads                  *)
(*   SpecConstraint       the constraint catalog and its cache             *)
(*   SpecDropTable        DropTable on tables that have constraints        *)
(*   SpecFunction         GetFunction and its transaction                  *)
(***************************************************************************)
EXTENDS Integers, Sequences, FiniteSets, Bags, TLC

\* ------------------------------------------------------------------------
\* Bounds of the model
\* ------------------------------------------------------------------------
\* largest epoch the epoch clock reaches (one checkpoint cycle per tick)
MaxEpoch == 3
\* number of user tables in the user database
MaxTables == 3
\* I/O failures the environment injects in one run
MaxIOFailures == 1
\* process crashes in one run
MaxCrashes == 1
\* seconds between two checkpoint cycles (checkpoint_interval_)
CheckpointInterval == 1

\* ------------------------------------------------------------------------
\* Program constants
\* ------------------------------------------------------------------------
INVALID_EID == 0
INVALID_TXN_ID == 0
INITIAL_TXN_ID == 1
\* a transaction id that is neither of the two sentinels
OTHER_TXN_ID == INITIAL_TXN_ID + 1
\* MAX_CID is the largest commit id; every read id of the model is below it
MAX_CID == MaxEpoch + 1
START_OID == 0
CATALOG_DATABASE_OID == 0
CATALOG_DATABASE_NAME == "peloton"
\* oid and name of the one user database of Spec
UserDatabaseOid == CATALOG_DATABASE_OID + 1
UserDatabaseName == "d"

TxnIds == {INVALID_TXN_ID, INITIAL_TXN_ID, OTHER_TXN_ID}
Cids == 0..MAX_CID

\* ------------------------------------------------------------------------
\* Conversions between epoch ids and directory names
\* ------------------------------------------------------------------------
DigitChars == <<"0", "1", "2", "3", "4", "5", "6", "7", "8", "9">>

\* std::to_string(begin_epoch_id): the decimal digits, as a sequence of characters
RECURSIVE to_string(_)
to_string(n) ==
  IF n < 10 THEN <<DigitChars[n + 1]>>
  ELSE to_string(n \div 10) \o <<DigitChars[(n % 10) + 1]>>

IsDigit(c) == \E i \in 1..10 : DigitChars[i] = c
DigitValue(c) == (CHOOSE i \in 1..10 : DigitChars[i] = c) - 1

RECURSIVE strtoul_from(_, _, _)
strtoul_from(s, i, acc) ==
  IF i > Len(s) \/ ~IsDigit(s[i]) THEN acc
  ELSE strtoul_from(s, i + 1, acc * 10 + DigitValue(s[i]))

\* std::strtoul(name, NULL, 10): the value of the leading decimal digits, 0 if none
strtoul(s) == strtoul_from(s, 1, 0)

\* the reserved name of the in-progress generation directory
checkpoint_working_dir_name_ == <<"w", "o", "r", "k", "i", "n", "g">>

\* ------------------------------------------------------------------------
\* Visibility of a tuple version for a checkpoint
\* ------------------------------------------------------------------------
\* IsVisible without the test for INVALID_TXN_ID of lines 377-380
IsVisible_NoInvalidTest(tuple_txn_id, tuple_begin_cid, tuple_end_cid, begin_cid) ==
  LET activated == begin_cid >= tuple_begin_cid
      invalidated == begin_cid >= tuple_end_cid
  IN  IF tuple_txn_id = INITIAL_TXN_ID
        THEN activated /\ ~invalidated
        ELSE IF tuple_begin_cid = MAX_CID THEN FALSE
             ELSE activated /\ ~invalidated

\* IsVisible whose test for an uncommitted version (lines 389-391) also takes
\* the largest commit id below MAX_CID for uncommitted
IsVisible_WiderUncommittedTest(tuple_txn_id, tuple_begin_cid, tuple_end_cid, begin_cid) ==
  LET activated == begin_cid >= tuple_begin_cid
      invalidated == begin_cid >= tuple_end_cid
  IN  IF tuple_txn_id = INVALID_TXN_ID THEN FALSE
      ELSE IF tuple_txn_id = INITIAL_TXN_ID
        THEN activated /\ ~invalidated
        ELSE IF tuple_begin_cid >= MAX_CID - 1 THEN FALSE
             ELSE activated /\ ~invalidated

IsVisible(tuple_txn_id, tuple_begin_cid, tuple_end_cid, begin_cid) ==
  LET activated == begin_cid >= tuple_begin_cid
      invalidated == begin_cid >= tuple_end_cid
  IN  IF tuple_txn_id = INVALID_TXN_ID THEN FALSE
      ELSE IF tuple_txn_id = INITIAL_TXN_ID
        THEN activated /\ ~invalidated
        ELSE IF tuple_begin_cid = MAX_CID THEN FALSE
             ELSE activated /\ ~invalidated


\* ------------------------------------------------------------------------
\* State
\* ------------------------------------------------------------------------
VARIABLES
  storage,          \* the storage manager's databases, in offset order
  brain,            \* settings::SettingId::brain
  dirs,             \* the checkpoint base directory: directory name -> generation
  clock,            \* the epoch clock; a transaction reads its epoch and read id from it
  is_running_,      \* TimestampCheckpointManager::is_running_
  pc,               \* position of the checkpoint thread in PerformCheckpointing
  count,            \* PerformCheckpointing's local count
  begin_cid,        \* read id of the cycle's transaction
  begin_epoch_id,   \* epoch id of the cycle's transaction
  idx,              \* loop index of the table loops of a cycle
  stop_pc,          \* position of the caller of StopCheckpointing
  io_failures,      \* failures of file operations so far
  crashes,          \* process crashes so far
  cycle_io_failed,  \* a file operation of the running cycle has failed
  good_cycle_done,  \* some cycle has completed without a failed file operation
  cycle_done,       \* the thread has completed a cycle and not begun another
  rec_pc,           \* position of DoCheckpointRecovery
  rec_idx,          \* loop index of the table loops of recovery
  rec_epoch,        \* epoch id returned by GetRecoveryCheckpointEpoch
  rec_list_ok,      \* whether recovery's directory listing succeeded
  rec_storage,      \* the databases of the recovering engine
  rec_txn,          \* state of the recovery transaction
  rec_result,       \* return value of DoCheckpointRecovery
  rec_failed,       \* a step of recovery has failed
  vis_in,           \* SpecVisible: the header fields and read id given to IsVisible
  vis_out,          \* SpecVisible: what IsVisible returned
  cat               \* SpecCatalog: the catalog tables, their OID counters, catalog_map_,
                    \* the transaction of the caller and the OIDs handed out so far

ckpt_vars == <<storage, brain, dirs, clock, is_running_, pc, count, begin_cid,
               begin_epoch_id, idx, stop_pc, io_failures, crashes, cycle_io_failed,
               good_cycle_done, cycle_done>>
rec_vars == <<rec_pc, rec_idx, rec_epoch, rec_list_ok, rec_storage, rec_txn,
              rec_result, rec_failed>>
vis_vars == <<vis_in, vis_out>>
cat_vars == <<cat>>
vars == <<ckpt_vars, rec_vars, vis_vars, cat_vars>>

\* ------------------------------------------------------------------------
\* Storage: databases, tables, tile groups, tuple versions
\* ------------------------------------------------------------------------
Range(s) == {s[i] : i \in DOMAIN s}
SeqToBag(s) == [x \in Range(s) |-> Cardinality({i \in DOMAIN s : s[i] = x})]
Put(f, k, v) == [x \in (DOMAIN f) \cup {k} |-> IF x = k THEN v ELSE f[x]]
Remove(f, k) == [x \in (DOMAIN f) \ {k} |-> f[x]]

RECURSIVE Flatten(_)
Flatten(ss) == IF ss = <<>> THEN <<>> ELSE Head(ss) \o Flatten(Tail(ss))

IntValue(n) == [type_id |-> "INTEGER", val |-> n]
VarcharValue(s) == [type_id |-> "VARCHAR", val |-> s]
\* every table of the model has the columns (id int, name varchar)
TableSchema == <<"INTEGER", "VARCHAR">>

Version(txn_id, b, e, id, name) ==
  [txn_id |-> txn_id, begin_cid |-> b, end_cid |-> e,
   values |-> <<IntValue(id), VarcharValue(name)>>]

\* the table contents Init chooses from: lists of tile groups
TableContents ==
  << << << Version(INITIAL_TXN_ID, 1, MAX_CID, 1, "abc"),
           Version(INITIAL_TXN_ID, 1, MAX_CID, 2, "abc") >> >>,
     << << Version(INITIAL_TXN_ID, 2, MAX_CID, 3, "x"),
           Version(INVALID_TXN_ID, MAX_CID, MAX_CID, 0, "") >>,
        << Version(OTHER_TXN_ID, MAX_CID, MAX_CID, 4, "y"),
           Version(INITIAL_TXN_ID, 1, 2, 5, "z") >> >>,
     << << Version(INITIAL_TXN_ID, 1, MAX_CID, 1, "abc"),
           Version(OTHER_TXN_ID, 1, 3, 1, "abc") >> >> >>

SchemaNames == <<"public", "s2", "s3">>
TableNames == <<"t", "u">>

\* the row of an object in its catalog table: the commit ids from which and
\* until which the object exists
CatalogEntry(b, e) == [begin_cid |-> b, end_cid |-> e]
\* the row of an object created before any checkpoint and never dropped
Existing == CatalogEntry(0, MAX_CID)

\* GetDatabaseObject(oid, txn) / GetTableObject(oid) is not nullptr: the
\* object's row is visible to the transaction that reads at cid
CatalogVisible(object, cid) ==
  object.catalog.begin_cid <= cid /\ cid < object.catalog.end_cid

\* the i-th user table: tables 1 and 3 have the same name in different schemas
UserTable(i, tile_groups) ==
  [oid |-> i,
   catalog |-> Existing,
   schema_name |-> SchemaNames[((i - 1) \div 2) + 1],
   name |-> TableNames[((i - 1) % 2) + 1],
   tile_groups |-> tile_groups]

\* the user database when table i holds contents i + shift (cyclically)
UserDatabase(shift) ==
  [oid |-> UserDatabaseOid, name |-> UserDatabaseName,
   catalog |-> Existing,
   tables |-> [i \in 1..MaxTables |->
                 UserTable(i, TableContents[((i + shift) % Len(TableContents)) + 1])]]

\* the catalog tables CreateCatalogTableCheckpoint and LoadCatalogTableCheckpoint visit
CatalogTableNames(with_brain) ==
  <<"DatabaseMetricsCatalog", "TableMetricsCatalog", "IndexMetricsCatalog",
    "QueryMetricsCatalog", "TriggerCatalog">>
  \o (IF with_brain THEN <<"QueryHistoryCatalog">> ELSE <<>>)

CatalogDatabase(with_brain) ==
  [oid |-> CATALOG_DATABASE_OID, name |-> CATALOG_DATABASE_NAME,
   catalog |-> Existing,
   tables |-> [i \in 1..Len(CatalogTableNames(with_brain)) |->
                 [oid |-> i, schema_name |-> "pg_catalog",
                  catalog |-> Existing,
                  name |-> CatalogTableNames(with_brain)[i],
                  tile_groups |-> << <<>> >>]]]

\* ------------------------------------------------------------------------
\* Checkpoint files
\* ------------------------------------------------------------------------
\* type::Value::SerializeTo: the value tagged with its type
SerializeTo(value) == <<value.type_id, value.val>>
\* type::Value::DeserializeFrom(input, type): the payload read back as a value of `type`
DeserializeFrom(bytes, type_id) == [type_id |-> type_id, val |-> bytes[2]]

\* <db>.<table>.tbl, the data file of a table in a generation directory
GetCheckpointFileName(db_name, table_name) == <<db_name, ".", table_name, ".tbl">>
\* the catalog file of a generation directory
CatalogFileName == <<"catalog.bin">>

\* the slots of a tile group that CheckpointingTableData finds visible
VisibleTuples(tile_group, cid) ==
  SelectSeq(tile_group,
            LAMBDA v : IsVisible(v.txn_id, v.begin_cid, v.end_cid, cid))

\* the buffer CheckpointingTableData writes for the k-th tile group: the first one
\* starts with the tile group count; then the tile group's structure, the count
\* of visible tuples and their column values
TileGroupBuffer(table, k, cid) ==
  LET visible_tuples == VisibleTuples(table.tile_groups[k], cid)
  IN  [tile_group_count |-> IF k = 1 THEN <<Len(table.tile_groups)>> ELSE <<>>,
       structure |-> Len(table.tile_groups[k]),
       tuple_count |-> Len(visible_tuples),
       tuples |-> [i \in 1..Len(visible_tuples) |->
                     [c \in 1..Len(TableSchema) |->
                        SerializeTo(visible_tuples[i].values[c])]]]

\* CheckpointingTableData: one fwrite per tile group; the fwrite of tile group
\* fail_at fails (0: none does) and the function returns without flushing
CheckpointingTableData(table, cid, fail_at) ==
  [complete |-> fail_at = 0,
   buffers |-> [k \in 1..(IF fail_at = 0 THEN Len(table.tile_groups) ELSE fail_at - 1)
                  |-> TileGroupBuffer(table, k, cid)]]

\* CreateTableCheckpointFile: the files of the working directory afterwards.
\* OpenFile "wb" truncates a file of the same name; when it fails nothing is written.
CreateTableCheckpointFile(files, db_name, table, cid, open_ok, fail_at) ==
  IF ~open_ok THEN files
  ELSE Put(files, GetCheckpointFileName(db_name, table.name),
           CheckpointingTableData(table, cid, fail_at))

\* the positions of the tables of a database that the transaction reading at
\* cid finds in the catalog
VisibleTables(db, cid) ==
  SelectSeq([t \in 1..Len(db.tables) |-> t],
            LAMBDA t : CatalogVisible(db.tables[t], cid))

\* a CreateUserTableCheckpoint without the tests of lines 193 and 204 for
\* objects the transaction does not see
UserCheckpointTables_Unseen(st, cid) ==
  Flatten([d \in 1..Len(st) |->
             IF st[d].oid # CATALOG_DATABASE_OID
               THEN [t \in 1..Len(st[d].tables) |-> <<d, t>>]
               ELSE <<>>])

\* the (database, table) pairs CreateUserTableCheckpoint hands to
\* CreateTableCheckpointFile: of every database the transaction sees but the
\* catalog database, the tables the transaction sees
UserCheckpointTables(st, cid) ==
  Flatten([d \in 1..Len(st) |->
             IF CatalogVisible(st[d], cid) /\ st[d].oid # CATALOG_DATABASE_OID
               THEN [i \in 1..Len(VisibleTables(st[d], cid)) |->
                       <<d, VisibleTables(st[d], cid)[i]>>]
               ELSE <<>>])

\* target_dbs of CreateUserTableCheckpoint: the databases described in the catalog file
TargetDatabases(st, cid) ==
  SelectSeq(st, LAMBDA db : CatalogVisible(db, cid) /\ db.oid # CATALOG_DATABASE_OID)

\* Catalog::SerializeDatabaseTo: a database with the tables the transaction
\* sees in it (schema, name, oid)
SerializeDatabaseTo(db, cid) ==
  [oid |-> db.oid, name |-> db.name,
   tables |-> [i \in 1..Len(VisibleTables(db, cid)) |->
                 [oid |-> db.tables[VisibleTables(db, cid)[i]].oid,
                  schema_name |-> db.tables[VisibleTables(db, cid)[i]].schema_name,
                  name |-> db.tables[VisibleTables(db, cid)[i]].name]]]

\* CheckpointingCatalogObject: the catalog file; write_ok is its one fwrite
CheckpointingCatalogObject(target_dbs, cid, write_ok) ==
  [complete |-> write_ok,
   buffers |-> IF write_ok
                 THEN <<[db_count |-> Len(target_dbs),
                         dbs |-> [i \in 1..Len(target_dbs) |->
                                    SerializeDatabaseTo(target_dbs[i], cid)]]>>
                 ELSE <<>>]

\* ------------------------------------------------------------------------
\* The checkpoint base directory
\* ------------------------------------------------------------------------
EmptyGeneration == [files |-> <<>>, io_failed |-> FALSE]

\* CreateWorkingCheckpointDirectory: a fresh working directory replaces a stale one
CreateWorkingCheckpointDirectory(ds) ==
  Put(ds, checkpoint_working_dir_name_, EmptyGeneration)

\* MoveWorkingToCheckpointDirectory(dir_name): one rename of the working directory
MoveWorkingToCheckpointDirectory(ds, dir_name) ==
  Put(Remove(ds, checkpoint_working_dir_name_), dir_name,
      ds[checkpoint_working_dir_name_])

\* RemoveOldCheckpoints(begin_epoch_id): every generation but that epoch's is removed
RemoveOldCheckpoints(ds, epoch_id) ==
  [n \in {m \in DOMAIN ds : m = checkpoint_working_dir_name_ \/ strtoul(m) = epoch_id}
     |-> ds[n]]

\* line 166 of PerformCheckpointing: the working directory is promoted to the
\* directory named by the cycle's begin epoch
PromoteWorkingDirectory(ds, epoch_id) ==
  MoveWorkingToCheckpointDirectory(ds, to_string(epoch_id))

\* a PerformCheckpointing that does not call RemoveOldCheckpoints
PruneGenerations_Skipped(ds, epoch_id) == ds

\* line 167 of PerformCheckpointing: the older generations are pruned
PruneGenerations(ds, epoch_id) == RemoveOldCheckpoints(ds, epoch_id)

\* the loop of GetRecoveryCheckpointEpoch with the comparison of line 120 turned round
RECURSIVE MaxEpochOf_Smallest(_, _)
MaxEpochOf_Smallest(names, max_epoch) ==
  IF names = {} THEN max_epoch
  ELSE LET dir_name == CHOOSE n \in names : TRUE
           epoch_id == strtoul(dir_name)
           next == IF dir_name = checkpoint_working_dir_name_ THEN max_epoch
                   ELSE IF epoch_id = 0 THEN max_epoch
                   ELSE IF max_epoch = INVALID_EID \/ epoch_id < max_epoch
                          THEN epoch_id ELSE max_epoch
       IN  MaxEpochOf_Smallest(names \ {dir_name}, next)

\* the loop of GetRecoveryCheckpointEpoch, lines 107-121, over the listed names
RECURSIVE MaxEpochOf(_, _)
MaxEpochOf(names, max_epoch) ==
  IF names = {} THEN max_epoch
  ELSE LET dir_name == CHOOSE n \in names : TRUE
           epoch_id == strtoul(dir_name)
           next == IF dir_name = checkpoint_working_dir_name_ THEN max_epoch
                   ELSE IF epoch_id = 0 THEN max_epoch
                   ELSE IF epoch_id > max_epoch THEN epoch_id ELSE max_epoch
       IN  MaxEpochOf(names \ {dir_name}, next)

\* GetRecoveryCheckpointEpoch: list_ok is the result of GetDirectoryList
GetRecoveryCheckpointEpoch(ds, list_ok) ==
  IF ~list_ok THEN INVALID_EID ELSE MaxEpochOf(DOMAIN ds, INVALID_EID)

\* ------------------------------------------------------------------------
\* Recovery of one table and of the catalog
\* ------------------------------------------------------------------------
\* a tuple inserted by the recovery transaction, not yet committed
RecoveredVersion(serialized) ==
  [txn_id |-> OTHER_TXN_ID, begin_cid |-> MAX_CID, end_cid |-> MAX_CID,
   values |-> [c \in 1..Len(TableSchema) |->
                 DeserializeFrom(serialized[c], TableSchema[c])]]

\* number of tuples in the buffers before buffer k
RECURSIVE TuplesBefore(_, _)
TuplesBefore(buffers, k) ==
  IF k <= 1 THEN 0
  ELSE TuplesBefore(buffers, k - 1) + buffers[k - 1].tuple_count

\* RecoverTableData: the table's tile groups afterwards and whether every step
\* succeeded. read_ok is ReadNBytesFromFile; the insert of tuple insert_fail_at
\* (counted over the file, 0: none) fails and the function returns there. A file
\* whose writing had failed ends before the tile groups its header announces.
RecoverTableData(table, file, read_ok, insert_fail_at) ==
  IF ~read_ok THEN [tile_groups |-> table.tile_groups, ok |-> FALSE]
  ELSE
    LET buffers == file.buffers
        \* the tile groups reached before the failing insert
        reached == {k \in 1..Len(buffers) :
                      insert_fail_at = 0 \/ TuplesBefore(buffers, k) < insert_fail_at}
        TileGroupOf(k) ==
          LET n == IF insert_fail_at = 0 THEN buffers[k].tuple_count
                   ELSE IF insert_fail_at - 1 - TuplesBefore(buffers, k) < buffers[k].tuple_count
                          THEN insert_fail_at - 1 - TuplesBefore(buffers, k)
                          ELSE buffers[k].tuple_count
          IN  [i \in 1..n |-> RecoveredVersion(buffers[k].tuples[i])]
    IN  [tile_groups |-> [k \in 1..Cardinality(reached) |-> TileGroupOf(k)],
         ok |-> file.complete /\ insert_fail_at = 0]

\* Catalog::DeserializeDatabaseFrom: the database and its tables are created, each
\* table with its default tile group
DeserializeDatabaseFrom(serialized) ==
  [oid |-> serialized.oid, name |-> serialized.name,
   catalog |-> Existing,
   tables |-> [t \in 1..Len(serialized.tables) |->
                 [oid |-> serialized.tables[t].oid,
                  catalog |-> Existing,
                  schema_name |-> serialized.tables[t].schema_name,
                  name |-> serialized.tables[t].name,
                  tile_groups |-> << <<>> >>]]]

\* RecoverCatalogObject on a completely written catalog file
RecoverCatalogObject(st, file) ==
  st \o [i \in 1..file.buffers[1].db_count |->
           DeserializeDatabaseFrom(file.buffers[1].dbs[i])]

\* the (database, table) pairs LoadUserTableCheckpoint hands to LoadTableCheckpointFile
UserRecoveryTables(st) ==
  Flatten([d \in 1..Len(st) |->
             IF st[d].oid # CATALOG_DATABASE_OID
               THEN [t \in 1..Len(st[d].tables) |-> <<d, t>>]
               ELSE <<>>])

\* every version of the storage changed by f
MapVersions(st, f(_)) ==
  [d \in 1..Len(st) |->
     [st[d] EXCEPT !.tables =
        [t \in 1..Len(st[d].tables) |->
           [st[d].tables[t] EXCEPT !.tile_groups =
              [g \in 1..Len(st[d].tables[t].tile_groups) |->
                 [i \in 1..Len(st[d].tables[t].tile_groups[g]) |->
                    f(st[d].tables[t].tile_groups[g][i])]]]]]]

\* CommitTransaction: the versions the transaction inserted become committed
CommitVersion(v) ==
  IF v.txn_id = OTHER_TXN_ID /\ v.begin_cid = MAX_CID
    THEN [v EXCEPT !.txn_id = INITIAL_TXN_ID, !.begin_cid = 1] ELSE v
\* AbortTransaction: the versions the transaction inserted become invalid
AbortVersion(v) ==
  IF v.txn_id = OTHER_TXN_ID /\ v.begin_cid = MAX_CID
    THEN [v EXCEPT !.txn_id = INVALID_TXN_ID] ELSE v

\* ------------------------------------------------------------------------
\* Initial states
\* ------------------------------------------------------------------------
InitCheckpointIdle ==
  /\ brain = FALSE
  /\ storage = <<CatalogDatabase(FALSE)>>
  /\ dirs = <<>>
  /\ clock = 0
  /\ is_running_ = FALSE
  /\ pc = "none"
  /\ count = 0
  /\ begin_cid = 0
  /\ begin_epoch_id = 0
  /\ idx = 0
  /\ stop_pc = "none"
  /\ io_failures = 0
  /\ crashes = 0
  /\ cycle_io_failed = FALSE
  /\ good_cycle_done = FALSE
  /\ cycle_done = FALSE

InitRecoveryIdle ==
  /\ rec_pc = "none"
  /\ rec_idx = 0
  /\ rec_epoch = INVALID_EID
  /\ rec_list_ok = TRUE
  /\ rec_storage = <<>>
  /\ rec_txn = "none"
  /\ rec_result = "none"
  /\ rec_failed = FALSE

InitVisibleIdle ==
  /\ vis_in = <<>>
  /\ vis_out = <<>>

InitCatalogIdle ==
  /\ cat = <<>>

\* The engine after startup: the catalog database, and one user database whose
\* tables hold the table contents in any rotation; the checkpoint base directory is empty
Init ==
  /\ brain \in BOOLEAN
  /\ \E shift \in 1..Len(TableContents) :
       storage = <<CatalogDatabase(brain), UserDatabase(shift)>>
  /\ dirs = <<>>
  /\ clock = 0
  /\ is_running_ = FALSE
  /\ pc = "none"
  /\ count = 0
  /\ begin_cid = 0
  /\ begin_epoch_id = 0
  /\ idx = 0
  /\ stop_pc = "none"
  /\ io_failures = 0
  /\ crashes = 0
  /\ cycle_io_failed = FALSE
  /\ good_cycle_done = FALSE
  /\ cycle_done = FALSE
  /\ InitRecoveryIdle
  /\ InitVisibleIdle
  /\ InitCatalogIdle

\* ------------------------------------------------------------------------
\* StartCheckpointing, StopCheckpointing
\* ------------------------------------------------------------------------
\* the thread is created and enters PerformCheckpointing (count = interval - 1)
StartCheckpointing ==
  /\ pc = "none"
  /\ rec_pc \in {"none", "done"}
  /\ is_running_' = TRUE
  /\ pc' = "check"
  /\ count' = CheckpointInterval - 1
  /\ stop_pc' = "none"
  /\ UNCHANGED <<storage, brain, dirs, clock, begin_cid, begin_epoch_id, idx,
                 io_failures, crashes, cycle_io_failed, good_cycle_done, cycle_done>>
  /\ UNCHANGED <<rec_vars, vis_vars, cat_vars>>

\* StopCheckpointing, line 52: the flag is cleared, then the caller joins
StopCheckpointing ==
  /\ stop_pc = "none"
  /\ pc \notin {"none"}
  /\ is_running_' = FALSE
  /\ stop_pc' = "joining"
  /\ UNCHANGED <<storage, brain, dirs, clock, pc, count, begin_cid, begin_epoch_id,
                 idx, io_failures, crashes, cycle_io_failed, good_cycle_done,
                 cycle_done>>
  /\ UNCHANGED <<rec_vars, vis_vars, cat_vars>>

\* central_checkpoint_thread_->join() returns once the thread has exited
\* a StopCheckpointing that does not wait for the thread
JoinReturns_AtOnce(thread_pc) == TRUE

JoinReturns(thread_pc) == thread_pc = "exited"

\* StopCheckpointing, line 53: join returns and StopCheckpointing with it
StopCheckpointingReturn ==
  /\ stop_pc = "joining"
  /\ JoinReturns(pc)
  /\ stop_pc' = "returned"
  /\ UNCHANGED <<storage, brain, dirs, clock, is_running_, pc, count, begin_cid,
                 begin_epoch_id, idx, io_failures, crashes, cycle_io_failed,
                 good_cycle_done, cycle_done>>
  /\ UNCHANGED <<rec_vars, vis_vars, cat_vars>>

\* ------------------------------------------------------------------------
\* PerformCheckpointing, step by step
\* ------------------------------------------------------------------------
\* a PerformCheckpointing loop head that does not test the flag
ThreadCheckRunning_Deaf ==
  /\ pc = "check"
  /\ pc' = "sleep"
  /\ UNCHANGED <<storage, brain, dirs, clock, is_running_, count, begin_cid,
                 begin_epoch_id, idx, stop_pc, io_failures, crashes, cycle_io_failed,
                 good_cycle_done, cycle_done>>
  /\ UNCHANGED <<rec_vars, vis_vars, cat_vars>>

\* lines 129-132: the loop ends when the flag is cleared
ThreadCheckRunning ==
  /\ pc = "check"
  /\ pc' = IF is_running_ = FALSE THEN "exited" ELSE "sleep"
  /\ UNCHANGED <<storage, brain, dirs, clock, is_running_, count, begin_cid,
                 begin_epoch_id, idx, stop_pc, io_failures, crashes, cycle_io_failed,
                 good_cycle_done, cycle_done>>
  /\ UNCHANGED <<rec_vars, vis_vars, cat_vars>>

\* lines 134-136: one second passes (the epoch advances); a cycle is due when
\* count reaches the interval
ThreadSleep ==
  /\ pc = "sleep"
  /\ clock < MaxEpoch
  /\ clock' = clock + 1
  /\ count' = count + 1
  /\ pc' = IF count + 1 = CheckpointInterval THEN "mkdir" ELSE "check"
  /\ UNCHANGED <<storage, brain, dirs, is_running_, begin_cid, begin_epoch_id, idx,
                 stop_pc, io_failures, crashes, cycle_io_failed, good_cycle_done,
                 cycle_done>>
  /\ UNCHANGED <<rec_vars, vis_vars, cat_vars>>

\* line 142
ThreadCreateWorkingDirectory ==
  /\ pc = "mkdir"
  /\ dirs' = CreateWorkingCheckpointDirectory(dirs)
  /\ cycle_io_failed' = FALSE
  /\ cycle_done' = FALSE
  /\ pc' = "begin"
  /\ UNCHANGED <<storage, brain, clock, is_running_, count, begin_cid, begin_epoch_id,
                 idx, stop_pc, io_failures, crashes, good_cycle_done>>
  /\ UNCHANGED <<rec_vars, vis_vars, cat_vars>>

\* lines 150-152: the cycle's transaction, its read id and its epoch
ThreadBeginTransaction ==
  /\ pc = "begin"
  /\ begin_cid' = clock
  /\ begin_epoch_id' = clock
  /\ idx' = 1
  /\ pc' = IF UserCheckpointTables(storage, clock) = <<>> THEN "catalog_file"
           ELSE "user_tables"
  /\ UNCHANGED <<storage, brain, dirs, clock, is_running_, count, stop_pc,
                 io_failures, crashes, cycle_io_failed, good_cycle_done, cycle_done>>
  /\ UNCHANGED <<rec_vars, vis_vars, cat_vars>>

\* the working directory after CreateTableCheckpointFile of one table
WriteTableFile(ds, db_name, table, cid, open_ok, fail_at) ==
  [ds EXCEPT ![checkpoint_working_dir_name_] =
     [files |-> CreateTableCheckpointFile(@.files, db_name, table, cid,
                                          open_ok, fail_at),
      io_failed |-> @.io_failed \/ ~open_ok \/ fail_at # 0]]

\* CreateUserTableCheckpoint, lines 187-219: one iteration of the table loop
ThreadUserTable ==
  /\ pc = "user_tables"
  /\ LET target == UserCheckpointTables(storage, begin_cid)[idx]
         database == storage[target[1]]
         table == database.tables[target[2]]
     IN  \E open_ok \in BOOLEAN, fail_at \in 0..Len(table.tile_groups) :
           /\ ~open_ok => fail_at = 0
           /\ (~open_ok \/ fail_at # 0) => io_failures < MaxIOFailures
           /\ dirs' = WriteTableFile(dirs, database.name, table, begin_cid,
                                     open_ok, fail_at)
           /\ io_failures' = IF open_ok /\ fail_at = 0 THEN io_failures
                             ELSE io_failures + 1
           /\ cycle_io_failed' = (cycle_io_failed \/ ~open_ok \/ fail_at # 0)
  /\ idx' = IF idx < Len(UserCheckpointTables(storage, begin_cid)) THEN idx + 1 ELSE 1
  /\ pc' = IF idx < Len(UserCheckpointTables(storage, begin_cid)) THEN "user_tables"
           ELSE "catalog_file"
  /\ UNCHANGED <<storage, brain, clock, is_running_, count, begin_cid, begin_epoch_id,
                 stop_pc, crashes, good_cycle_done, cycle_done>>
  /\ UNCHANGED <<rec_vars, vis_vars, cat_vars>>

\* CreateUserTableCheckpoint, lines 221-229: the catalog file
ThreadCatalogFile ==
  /\ pc = "catalog_file"
  /\ \E open_ok \in BOOLEAN, write_ok \in BOOLEAN :
       /\ ~open_ok => write_ok
       /\ (~open_ok \/ ~write_ok) => io_failures < MaxIOFailures
       /\ dirs' = [dirs EXCEPT ![checkpoint_working_dir_name_] =
                     [files |-> IF open_ok
                                  THEN Put(@.files, CatalogFileName,
                                           CheckpointingCatalogObject(
                                             TargetDatabases(storage, begin_cid),
                                             begin_cid, write_ok))
                                  ELSE @.files,
                      io_failed |-> @.io_failed \/ ~open_ok \/ ~write_ok]]
       /\ io_failures' = IF open_ok /\ write_ok THEN io_failures ELSE io_failures + 1
       /\ cycle_io_failed' = (cycle_io_failed \/ ~open_ok \/ ~write_ok)
  /\ idx' = 1
  /\ pc' = "catalog_tables"
  /\ UNCHANGED <<storage, brain, clock, is_running_, count, begin_cid, begin_epoch_id,
                 stop_pc, crashes, good_cycle_done, cycle_done>>
  /\ UNCHANGED <<rec_vars, vis_vars, cat_vars>>

\* the catalog database of a storage
CatalogDatabaseOf(st) == st[CHOOSE d \in 1..Len(st) : st[d].oid = CATALOG_DATABASE_OID]

\* the outcomes of the file operations on n files: each is written ("ok"), cannot
\* be opened ("open") or is opened and not written or read to its end ("io")
FileOutcomes(n) == [1..n -> {"ok", "open", "io"}]
FailuresIn(outcomes) == Cardinality({i \in DOMAIN outcomes : outcomes[i] # "ok"})

\* CreateCatalogTableCheckpoint, lines 234-263: a CreateTableCheckpointFile call
\* for each catalog table, from the i-th on
RECURSIVE CreateCatalogTableCheckpoint(_, _, _, _, _)
CreateCatalogTableCheckpoint(files, database, cid, outcomes, i) ==
  IF i > Len(database.tables) THEN files
  ELSE CreateCatalogTableCheckpoint(
         CreateTableCheckpointFile(files, database.name, database.tables[i], cid,
                                   outcomes[i] # "open",
                                   IF outcomes[i] = "io" THEN 1 ELSE 0),
         database, cid, outcomes, i + 1)

\* line 158
ThreadCatalogTables ==
  /\ pc = "catalog_tables"
  /\ \E outcomes \in FileOutcomes(Len(CatalogTableNames(brain))) :
       /\ io_failures + FailuresIn(outcomes) <= MaxIOFailures
       /\ dirs' = [dirs EXCEPT ![checkpoint_working_dir_name_] =
                     [files |-> CreateCatalogTableCheckpoint(
                                  @.files, CatalogDatabaseOf(storage), begin_cid,
                                  outcomes, 1),
                      io_failed |-> @.io_failed \/ FailuresIn(outcomes) > 0]]
       /\ io_failures' = io_failures + FailuresIn(outcomes)
       /\ cycle_io_failed' = (cycle_io_failed \/ FailuresIn(outcomes) > 0)
  /\ idx' = 0
  /\ pc' = "end"
  /\ UNCHANGED <<storage, brain, clock, is_running_, count, begin_cid, begin_epoch_id,
                 stop_pc, crashes, good_cycle_done, cycle_done>>
  /\ UNCHANGED <<rec_vars, vis_vars, cat_vars>>

\* line 161
ThreadEndTransaction ==
  /\ pc = "end"
  /\ pc' = "move"
  /\ UNCHANGED <<storage, brain, dirs, clock, is_running_, count, begin_cid,
                 begin_epoch_id, idx, stop_pc, io_failures, crashes, cycle_io_failed,
                 good_cycle_done, cycle_done>>
  /\ UNCHANGED <<rec_vars, vis_vars, cat_vars>>

\* line 166
ThreadMoveWorkingDirectory ==
  /\ pc = "move"
  /\ dirs' = PromoteWorkingDirectory(dirs, begin_epoch_id)
  /\ pc' = "remove"
  /\ UNCHANGED <<storage, brain, clock, is_running_, count, begin_cid, begin_epoch_id,
                 idx, stop_pc, io_failures, crashes, cycle_io_failed, good_cycle_done,
                 cycle_done>>
  /\ UNCHANGED <<rec_vars, vis_vars, cat_vars>>

\* lines 167-174: the cycle ends
ThreadRemoveOldCheckpoints ==
  /\ pc = "remove"
  /\ dirs' = PruneGenerations(dirs, begin_epoch_id)
  /\ count' = 0
  /\ pc' = "check"
  /\ cycle_done' = TRUE
  /\ good_cycle_done' = (good_cycle_done \/ ~cycle_io_failed)
  /\ UNCHANGED <<storage, brain, clock, is_running_, begin_cid, begin_epoch_id, idx,
                 stop_pc, io_failures, crashes, cycle_io_failed>>
  /\ UNCHANGED <<rec_vars, vis_vars, cat_vars>>

\* The process dies at any point and is started again: the thread, its locals and
\* the recovering engine are gone, the files stay
Crash ==
  /\ crashes < MaxCrashes
  /\ pc # "none"
  /\ crashes' = crashes + 1
  /\ is_running_' = FALSE
  /\ pc' = "none"
  /\ count' = 0
  /\ begin_cid' = 0
  /\ begin_epoch_id' = 0
  /\ idx' = 0
  /\ stop_pc' = "none"
  /\ cycle_io_failed' = FALSE
  /\ cycle_done' = FALSE
  /\ rec_pc' = "none"
  /\ rec_idx' = 0
  /\ rec_epoch' = INVALID_EID
  /\ rec_list_ok' = TRUE
  /\ rec_storage' = <<>>
  /\ rec_txn' = "none"
  /\ rec_result' = "none"
  /\ rec_failed' = FALSE
  /\ UNCHANGED <<storage, brain, dirs, clock, io_failures, good_cycle_done>>
  /\ UNCHANGED <<vis_vars, cat_vars>>

\* ------------------------------------------------------------------------
\* DoCheckpointRecovery, step by step
\* ------------------------------------------------------------------------
\* the files of the generation recovery reads
RecoveryFiles == dirs[to_string(rec_epoch)].files

\* lines 57-68: the newest generation is looked up; without one recovery ends
RecoveryBegin ==
  /\ rec_pc = "none"
  /\ pc = "none"
  /\ \E list_ok \in BOOLEAN :
       /\ ~list_ok => io_failures < MaxIOFailures
       /\ io_failures' = IF list_ok THEN io_failures ELSE io_failures + 1
       /\ rec_list_ok' = list_ok
       /\ rec_epoch' = GetRecoveryCheckpointEpoch(dirs, list_ok)
       /\ IF GetRecoveryCheckpointEpoch(dirs, list_ok) = INVALID_EID
            THEN /\ rec_pc' = "done"
                 /\ rec_result' = "false"
                 /\ rec_txn' = "none"
            ELSE /\ rec_pc' = "catalog"
                 /\ rec_result' = "none"
                 /\ rec_txn' = "active"
  /\ rec_storage' = <<CatalogDatabase(brain)>>
  /\ rec_idx' = 0
  /\ rec_failed' = FALSE
  /\ UNCHANGED <<storage, brain, dirs, clock, is_running_, pc, count, begin_cid,
                 begin_epoch_id, idx, stop_pc, crashes, cycle_io_failed,
                 good_cycle_done, cycle_done>>
  /\ UNCHANGED <<vis_vars, cat_vars>>

\* DoCheckpointRecovery, lines 71-82: a Load function returned false
RecoveryAbort ==
  /\ rec_txn' = "aborted"
  /\ rec_result' = "false"
  /\ rec_pc' = "done"
  /\ rec_failed' = TRUE
  /\ rec_storage' = MapVersions(rec_storage, AbortVersion)
  /\ rec_idx' = 0

\* the position after the user tables (LoadUserTableCheckpoint returned true)
AfterUserTables(st) == IF UserRecoveryTables(st) = <<>> THEN "catalog_tables"
                       ELSE "user_tables"

\* LoadUserTableCheckpoint, lines 433-443: the catalog file
RecoveryCatalog ==
  /\ rec_pc = "catalog"
  /\ \E open_ok \in BOOLEAN, read_ok \in BOOLEAN :
       /\ ~open_ok => read_ok
       /\ (~open_ok \/ ~read_ok) => io_failures < MaxIOFailures
       /\ io_failures' = IF open_ok /\ read_ok THEN io_failures ELSE io_failures + 1
       /\ IF /\ open_ok
             /\ read_ok
             /\ CatalogFileName \in DOMAIN RecoveryFiles
             /\ RecoveryFiles[CatalogFileName].complete
            THEN /\ rec_storage' = RecoverCatalogObject(rec_storage,
                                                        RecoveryFiles[CatalogFileName])
                 /\ rec_pc' = AfterUserTables(
                                RecoverCatalogObject(rec_storage,
                                                     RecoveryFiles[CatalogFileName]))
                 /\ rec_idx' = 1
                 /\ UNCHANGED <<rec_txn, rec_result, rec_failed>>
            ELSE RecoveryAbort
  /\ UNCHANGED <<rec_epoch, rec_list_ok>>
  /\ UNCHANGED <<storage, brain, dirs, clock, is_running_, pc, count, begin_cid,
                 begin_epoch_id, idx, stop_pc, crashes, cycle_io_failed,
                 good_cycle_done, cycle_done>>
  /\ UNCHANGED <<vis_vars, cat_vars>>

\* number of tuples a data file holds
TuplesIn(file) == TuplesBefore(file.buffers, Len(file.buffers) + 1)

\* LoadTableCheckpointFile's return value: false only when the file cannot be opened
LoadTableCheckpointFile(opened, recovered_ok) == opened

\* LoadTableCheckpointFile of table t of database d: the storage afterwards, what
\* it returned, and whether every step succeeded
LoadTable(st, d, t, files, open_ok, read_ok, insert_fail_at) ==
  LET table == st[d].tables[t]
      file_name == GetCheckpointFileName(st[d].name, table.name)
      opened == open_ok /\ file_name \in DOMAIN files
      recovered == IF opened
                     THEN RecoverTableData(table, files[file_name], read_ok,
                                           insert_fail_at)
                     ELSE [tile_groups |-> table.tile_groups, ok |-> FALSE]
  IN  [storage |-> [st EXCEPT ![d].tables[t].tile_groups = recovered.tile_groups],
       returned |-> LoadTableCheckpointFile(opened, recovered.ok),
       ok |-> recovered.ok]

\* the failures the environment may inject into the recovery of one table
LoadTableStep(d, t, next_idx, next_pc) ==
  LET table == rec_storage[d].tables[t]
      file_name == GetCheckpointFileName(rec_storage[d].name, table.name)
      tuples == IF file_name \in DOMAIN RecoveryFiles
                  THEN TuplesIn(RecoveryFiles[file_name]) ELSE 0
  IN  \E open_ok \in BOOLEAN, read_ok \in BOOLEAN, insert_fail_at \in 0..tuples :
        LET injected == ~open_ok \/ ~read_ok \/ insert_fail_at # 0
            loaded == LoadTable(rec_storage, d, t, RecoveryFiles, open_ok, read_ok,
                                insert_fail_at)
        IN  /\ ~open_ok => (read_ok /\ insert_fail_at = 0)
            /\ ~read_ok => insert_fail_at = 0
            /\ injected => io_failures < MaxIOFailures
            /\ io_failures' = IF injected THEN io_failures + 1 ELSE io_failures
            /\ IF loaded.returned
                 THEN /\ rec_storage' = loaded.storage
                      /\ rec_failed' = (rec_failed \/ ~loaded.ok)
                      /\ rec_idx' = next_idx
                      /\ rec_pc' = next_pc
                      /\ UNCHANGED <<rec_txn, rec_result>>
                 ELSE RecoveryAbort

\* LoadUserTableCheckpoint, lines 446-465: one iteration of the table loop
RecoveryUserTable ==
  /\ rec_pc = "user_tables"
  /\ LET target == UserRecoveryTables(rec_storage)[rec_idx]
         last == rec_idx >= Len(UserRecoveryTables(rec_storage))
     IN  LoadTableStep(target[1], target[2],
                       IF last THEN 1 ELSE rec_idx + 1,
                       IF last THEN "catalog_tables" ELSE "user_tables")
  /\ UNCHANGED <<rec_epoch, rec_list_ok>>
  /\ UNCHANGED <<storage, brain, dirs, clock, is_running_, pc, count, begin_cid,
                 begin_epoch_id, idx, stop_pc, crashes, cycle_io_failed,
                 good_cycle_done, cycle_done>>
  /\ UNCHANGED <<vis_vars, cat_vars>>

\* LoadCatalogTableCheckpoint, lines 504-562: a LoadTableCheckpointFile call for
\* each catalog table, from the i-th on, until one returns false
RECURSIVE LoadCatalogTableCheckpoint(_, _, _, _, _)
LoadCatalogTableCheckpoint(st, d, files, outcomes, i) ==
  IF i > Len(st[d].tables) THEN [storage |-> st, returned |-> TRUE, ok |-> TRUE]
  ELSE LET loaded == LoadTable(st, d, i, files, outcomes[i] # "open",
                               outcomes[i] # "io", 0)
           rest == LoadCatalogTableCheckpoint(loaded.storage, d, files, outcomes, i + 1)
       IN  IF ~loaded.returned
             THEN [storage |-> loaded.storage, returned |-> FALSE, ok |-> FALSE]
             ELSE [rest EXCEPT !.ok = rest.ok /\ loaded.ok]

\* line 78
RecoveryCatalogTables ==
  /\ rec_pc = "catalog_tables"
  /\ \E outcomes \in FileOutcomes(Len(CatalogTableNames(brain))) :
       LET d == CHOOSE i \in 1..Len(rec_storage) :
                  rec_storage[i].oid = CATALOG_DATABASE_OID
           loaded == LoadCatalogTableCheckpoint(rec_storage, d, RecoveryFiles,
                                                outcomes, 1)
       IN  /\ io_failures + FailuresIn(outcomes) <= MaxIOFailures
           /\ io_failures' = io_failures + FailuresIn(outcomes)
           /\ IF loaded.returned
                THEN /\ rec_storage' = loaded.storage
                     /\ rec_failed' = (rec_failed \/ ~loaded.ok)
                     /\ rec_idx' = 0
                     /\ rec_pc' = "commit"
                     /\ UNCHANGED <<rec_txn, rec_result>>
                ELSE RecoveryAbort
  /\ UNCHANGED <<rec_epoch, rec_list_ok>>
  /\ UNCHANGED <<storage, brain, dirs, clock, is_running_, pc, count, begin_cid,
                 begin_epoch_id, idx, stop_pc, crashes, cycle_io_failed,
                 good_cycle_done, cycle_done>>
  /\ UNCHANGED <<vis_vars, cat_vars>>

\* DoCheckpointRecovery, lines 85-92
RecoveryCommit ==
  /\ rec_pc = "commit"
  /\ rec_txn' = "committed"
  /\ rec_result' = "true"
  /\ rec_pc' = "done"
  /\ rec_storage' = MapVersions(rec_storage, CommitVersion)
  /\ UNCHANGED <<rec_idx, rec_epoch, rec_list_ok, rec_failed>>
  /\ UNCHANGED ckpt_vars
  /\ UNCHANGED <<vis_vars, cat_vars>>

\* ------------------------------------------------------------------------
\* The checkpoint manager: its thread, crashes and recovery
\* ------------------------------------------------------------------------
Next ==
  \/ StartCheckpointing
  \/ StopCheckpointing
  \/ StopCheckpointingReturn
  \/ ThreadCheckRunning
  \/ ThreadSleep
  \/ ThreadCreateWorkingDirectory
  \/ ThreadBeginTransaction
  \/ ThreadUserTable
  \/ ThreadCatalogFile
  \/ ThreadCatalogTables
  \/ ThreadEndTransaction
  \/ ThreadMoveWorkingDirectory
  \/ ThreadRemoveOldCheckpoints
  \/ Crash
  \/ RecoveryBegin
  \/ RecoveryCatalog
  \/ RecoveryUserTable
  \/ RecoveryCatalogTables
  \/ RecoveryCommit

Spec == Init /\ [][Next]_vars

\* ------------------------------------------------------------------------
\* Properties of the checkpoint manager (checked under Spec)
\* ------------------------------------------------------------------------
\* a directory name that is the decimal form of an epoch id
EpochNamed(n) == \E e \in 1..MaxEpoch : n = to_string(e)
\* the epoch ids that name a directory of the base directory
EpochsPresent == {e \in 1..MaxEpoch : to_string(e) \in DOMAIN dirs}

\* every file of the generation is there and was written to its end
GenerationComplete(g) ==
  \A d \in 1..Len(storage) :
    \A t \in 1..Len(storage[d].tables) :
      LET f == GetCheckpointFileName(storage[d].name, storage[d].tables[t].name)
      IN  /\ f \in DOMAIN g.files
          /\ g.files[f].complete
          /\ CatalogFileName \in DOMAIN g.files
          /\ g.files[CatalogFileName].complete

\* C1: at every point of a checkpoint cycle, crashes included, every directory of
\* the base directory named by an epoch id holds a completely written generation
C1_EpochDirectoriesComplete ==
  \A n \in DOMAIN dirs : EpochNamed(n) => GenerationComplete(dirs[n])

\* C2: when a file operation of a cycle has failed, the cycle's working directory
\* is not promoted to the directory named by the cycle's epoch
C2_FailedCycleNotPromoted ==
  cycle_io_failed => to_string(begin_epoch_id) \notin DOMAIN dirs

\* C3: when a step of recovery has failed, DoCheckpointRecovery has aborted its
\* transaction and returned false; it commits only if every step succeeded
C3_RecoveryAllOrNothing ==
  (rec_pc = "done" /\ rec_failed) => (rec_txn = "aborted" /\ rec_result = "false")

\* C4: once a cycle has completed, a complete generation named by an epoch id
\* exists at every later point, crashes included
C4_CompleteGenerationExists ==
  good_cycle_done =>
    \E n \in DOMAIN dirs : EpochNamed(n) /\ GenerationComplete(dirs[n])

\* C5: GetRecoveryCheckpointEpoch returns the largest epoch id that names a
\* directory, the working directory never counting, and INVALID_EID when there is
\* none or the listing failed
C5_RecoveryEpochIsNewest ==
  (rec_pc # "none" /\ pc = "none") =>
    IF ~rec_list_ok \/ EpochsPresent = {}
      THEN rec_epoch = INVALID_EID
      ELSE rec_epoch \in EpochsPresent /\ \A e \in EpochsPresent : e <= rec_epoch

\* recovery looked at a base directory holding two generations and a listing that succeeded
C5_Witness ==
  /\ rec_pc # "none"
  /\ pc = "none"
  /\ rec_list_ok
  /\ Cardinality(EpochsPresent) >= 2
  /\ rec_epoch >= 2

\* C6: after a completed cycle the base directory holds exactly the directory
\* named by that cycle's begin epoch, no working directory, and
\* GetRecoveryCheckpointEpoch returns that epoch
C6_OneGenerationAfterCycle ==
  cycle_done =>
    /\ DOMAIN dirs = {to_string(begin_epoch_id)}
    /\ GetRecoveryCheckpointEpoch(dirs, TRUE) = begin_epoch_id

\* three successive cycles have completed
C6_Witness ==
  /\ cycle_done
  /\ crashes = 0
  /\ begin_epoch_id = 3

\* the values of the rows a checkpoint at read id cid finds visible in a table
VisibleRows(table, cid) ==
  LET visible == Flatten([g \in 1..Len(table.tile_groups) |->
                            VisibleTuples(table.tile_groups[g], cid)])
  IN  [i \in 1..Len(visible) |-> visible[i].values]
\* the values of the rows of a recovered table
RecoveredRows(table) ==
  LET versions == Flatten(table.tile_groups)
  IN  [i \in 1..Len(versions) |-> versions[i].values]

\* C8: a checkpoint cycle followed by DoCheckpointRecovery on a fresh engine, with
\* no file operation failing in either, gives every user table exactly the rows
\* visible at the checkpoint's read id (which is the cycle's epoch)
C8_RoundTrip ==
  ( /\ rec_pc = "done"
    /\ pc = "none"
    /\ rec_result = "true"
    /\ ~rec_failed
    /\ ~dirs[to_string(rec_epoch)].io_failed )
  => \A d \in 1..Len(storage) :
       storage[d].oid # CATALOG_DATABASE_OID =>
         \A t \in 1..Len(storage[d].tables) :
           \E rd \in 1..Len(rec_storage) :
             /\ rec_storage[rd].oid = storage[d].oid
             /\ \E rt \in 1..Len(rec_storage[rd].tables) :
                  /\ rec_storage[rd].tables[rt].oid = storage[d].tables[t].oid
                  /\ SeqToBag(RecoveredRows(rec_storage[rd].tables[rt]))
                       = SeqToBag(VisibleRows(storage[d].tables[t], rec_epoch))

\* the positions of the thread inside a checkpoint cycle
CyclePositions == {"mkdir", "begin", "user_tables", "catalog_file",
                   "catalog_tables", "end", "move", "remove"}

\* C9: StopCheckpointing returns only after the thread has exited; the thread
\* exits only at the head of its loop, so a cycle that has started runs through to
\* its prune step; after StopCheckpointing has returned no step of a cycle happens
C9_StopJoinsThread ==
  [][ /\ (stop_pc' = "returned" => pc' = "exited")
      /\ ((pc' = "exited" /\ pc # "exited") => pc = "check")
      /\ ((pc \in CyclePositions /\ pc' \notin CyclePositions)
            => (pc = "remove" \/ crashes' # crashes))
      /\ ((stop_pc = "returned" /\ stop_pc' = "returned")
            => (dirs' = dirs /\ pc' = pc)) ]_vars

\* StopCheckpointing was called, a cycle has run to its end and the call has returned
C9_Witness ==
  /\ stop_pc = "returned"
  /\ pc = "exited"
  /\ cycle_done

\* ------------------------------------------------------------------------
\* IsVisible on its own: a tuple header and a read id, then the call
\* ------------------------------------------------------------------------
InitVisible ==
  /\ InitCheckpointIdle
  /\ InitRecoveryIdle
  /\ InitCatalogIdle
  /\ vis_in \in [tuple_txn_id : TxnIds, tuple_begin_cid : Cids,
                 tuple_end_cid : Cids, begin_cid : Cids]
  /\ vis_out = <<>>

CallIsVisible ==
  /\ vis_out = <<>>
  /\ vis_out' = <<IsVisible(vis_in.tuple_txn_id, vis_in.tuple_begin_cid,
                            vis_in.tuple_end_cid, vis_in.begin_cid)>>
  /\ UNCHANGED <<vis_in, ckpt_vars, rec_vars, cat_vars>>

NextVisible == CallIsVisible

SpecVisible == InitVisible /\ [][NextVisible]_vars

\* C7: IsVisible is false for INVALID_TXN_ID; for INITIAL_TXN_ID it is true exactly
\* when tuple_begin_cid <= begin_cid < tuple_end_cid; for any other transaction id
\* it is false when tuple_begin_cid is MAX_CID and otherwise true exactly when
\* tuple_begin_cid <= begin_cid < tuple_end_cid
C7_IsVisibleCases ==
  vis_out # <<>> =>
    LET in_interval == /\ vis_in.tuple_begin_cid <= vis_in.begin_cid
                       /\ vis_in.begin_cid < vis_in.tuple_end_cid
    IN  /\ (vis_in.tuple_txn_id = INVALID_TXN_ID => vis_out[1] = FALSE)
        /\ (vis_in.tuple_txn_id = INITIAL_TXN_ID => vis_out[1] = in_interval)
        /\ (vis_in.tuple_txn_id \notin {INVALID_TXN_ID, INITIAL_TXN_ID} =>
              IF vis_in.tuple_begin_cid = MAX_CID
                THEN vis_out[1] = FALSE
                ELSE vis_out[1] = in_interval)

\* IsVisible was called on a slot with the invalid transaction id whose commit
\* interval contains the read id, and answered false
C7_Witness ==
  /\ vis_out = <<FALSE>>
  /\ vis_in.tuple_txn_id = INVALID_TXN_ID
  /\ vis_in.tuple_begin_cid <= vis_in.begin_cid
  /\ vis_in.begin_cid < vis_in.tuple_end_cid

\* ------------------------------------------------------------------------
\* Catalog: databases, schemas, tables and indexes and their OIDs
\* ------------------------------------------------------------------------
MaxDatabaseOids == 2
MaxObjectOids == 3
MaxCallsPerTxn == 3
MaxTxns == 2
MaxBootstraps == 2
MaxLanguageOids == 2
MaxProcOids == 2
MaxLayoutOids == 2
OID_FOR_USER_OFFSET == 100
BuiltinFunctions == 43
ROW_STORE_LAYOUT_OID == 0
DEFAULT_SCHEMA_OID == 1
DEFAULT_SCHEMA_NAME == "public"

DatabaseNames == {"a"}
NamespaceNames == {DEFAULT_SCHEMA_NAME, "s"}
NewTableName == "t"
IndexName == <<"i">>
LanguageNames == {"l", "m"}
ProcNames == {<<"f">>, <<"g">>}
TriggerName == "g"
Column(name, type, length, primary, unique) == [name |-> name, type |-> type, length |-> length, primary |-> primary, unique |-> unique]
\* the column lists CreateTable is called with
ColumnLists == { <<Column("id", "INTEGER", 4, FALSE, FALSE)>>,
                 <<Column("id", "INTEGER", 4, TRUE, FALSE),
                   Column("v", "VARCHAR", 8, FALSE, TRUE)>>,
                 <<Column("id", "INTEGER", 4, TRUE, FALSE),
                   Column("id", "VARCHAR", 8, FALSE, TRUE)>> }

\* catalog::Schema: a column starts where the columns before it end
RECURSIVE GetOffset(_, _)
GetOffset(columns, column_id) ==
  IF column_id = 0 THEN 0
  ELSE GetOffset(columns, column_id - 1) + columns[column_id].length

\* storage::DataTable::GetNextLayoutOid: the table's counter advances and its new
\* value is handed out
GetNextLayoutOid(oid_) == [oid |-> oid_ + 1, oid_ |-> oid_ + 1]

\* AbstractCatalog::GetNextOid: the counter's value is handed out and the counter advances
GetNextOid(oid_) == [oid |-> oid_, oid_ |-> oid_ + 1]

\* the OID counters of the catalogs of a database after SystemCatalogs::Bootstrap
SystemCatalogs == [pg_namespace |-> OID_FOR_USER_OFFSET,
                   pg_table |-> OID_FOR_USER_OFFSET,
                   pg_index |-> OID_FOR_USER_OFFSET]

\* record that an object of a catalog table of a database received an OID
Issue(c, table, database_oid, oid) ==
  [c EXCEPT !.issued = @ (+) SetToBag({<<table, database_oid, oid>>})]

Returns(c, result) == [c EXCEPT !.result = result]

\* the rows of a catalog table as the caller's transaction sees them
GetDatabaseCatalogEntry(c, database_name) ==
  {r \in c.pg_database : r.name = database_name}
GetSchemaCatalogEntry(c, database_oid, schema_name) ==
  {r \in c.pg_namespace : r.database_oid = database_oid /\ r.name = schema_name}
\* a lookup of a table that looks in the default schema whatever schema is named
GetTableCatalogEntry_DefaultSchema(c, database_oid, table_name, schema_name) ==
  {r \in c.pg_table : /\ r.database_oid = database_oid
                      /\ r.name = table_name
                      /\ r.schema_name = DEFAULT_SCHEMA_NAME}
GetTableCatalogEntry(c, database_oid, table_name, schema_name) ==
  {r \in c.pg_table : /\ r.database_oid = database_oid
                      /\ r.name = table_name
                      /\ r.schema_name = schema_name}
GetIndexCatalogEntry(c, database_oid, table_oid, index_name) ==
  {r \in c.pg_index : /\ r.database_oid = database_oid
                      /\ r.table_oid = table_oid
                      /\ r.name = index_name}
TheOid(rows) == (CHOOSE r \in rows : TRUE).oid

\* Catalog::CreateIndex, the overload taking OIDs
CreateIndex(c, database_oid, schema_name, table_oid, is_catalog, index_name) ==
  IF ~is_catalog /\ GetIndexCatalogEntry(c, database_oid, table_oid, index_name) # {}
    THEN Returns(c, "exception")
    ELSE LET index_oid == GetNextOid(c.catalog_map_[database_oid].pg_index)
             row == [database_oid |-> database_oid, oid |-> index_oid.oid,
                     table_oid |-> table_oid, name |-> index_name,
                     schema_name |-> schema_name]
         IN  Issue([c EXCEPT !.catalog_map_[database_oid].pg_index = index_oid.oid_,
                             !.pg_index = @ \cup {row},
                             !.result = "SUCCESS"],
                   "pg_index", database_oid, index_oid.oid)

\* a CreatePrimaryIndex that takes the index OID from pg_table's counter
CreatePrimaryIndex_FromTableCatalog(c, database_oid, schema_name, table_oid, table_name, columns) ==
  IF \A i \in 1..Len(columns) : ~columns[i].primary
    THEN Returns(c, "FAILURE")
    ELSE LET index_oid == GetNextOid(c.catalog_map_[database_oid].pg_table)
             row == [database_oid |-> database_oid, oid |-> index_oid.oid,
                     table_oid |-> table_oid, name |-> <<table_name, "_pkey">>,
                     schema_name |-> schema_name]
         IN  Issue([c EXCEPT !.catalog_map_[database_oid].pg_table = index_oid.oid_,
                             !.pg_index = @ \cup {row},
                             !.result = "SUCCESS"],
                   "pg_index", database_oid, index_oid.oid)

\* Catalog::CreatePrimaryIndex
CreatePrimaryIndex(c, database_oid, schema_name, table_oid, table_name, columns) ==
  IF \A i \in 1..Len(columns) : ~columns[i].primary
    THEN Returns(c, "FAILURE")
    ELSE LET index_oid == GetNextOid(c.catalog_map_[database_oid].pg_index)
             row == [database_oid |-> database_oid, oid |-> index_oid.oid,
                     table_oid |-> table_oid, name |-> <<table_name, "_pkey">>,
                     schema_name |-> schema_name]
         IN  Issue([c EXCEPT !.catalog_map_[database_oid].pg_index = index_oid.oid_,
                             !.pg_index = @ \cup {row},
                             !.result = "SUCCESS"],
                   "pg_index", database_oid, index_oid.oid)

\* the column loop of Catalog::CreateTable: a unique index for every unique column
RECURSIVE CreateUniqueIndexes(_, _, _, _, _, _, _)
CreateUniqueIndexes(c, database_oid, schema_name, table_oid, table_name, columns, column_id) ==
  IF column_id > Len(columns) THEN c
  ELSE LET column == columns[column_id]
           index_name == <<table_name, "_", column.name, "_UNIQ">>
           next == IF column.unique
                     THEN CreateIndex(c, database_oid, schema_name, table_oid,
                                      FALSE, index_name)
                     ELSE c
       IN  CreateUniqueIndexes(next, database_oid, schema_name, table_oid,
                               table_name, columns, column_id + 1)

\* a column loop that numbers the columns from the last one
InsertColumns_Reversed(c, database_oid, table_oid, columns, column_id) ==
  [c EXCEPT !.pg_attribute = @ \cup
     {[database_oid |-> database_oid, table_oid |-> table_oid,
       column_id |-> Len(columns) - i, name |-> columns[i].name,
       offset |-> GetOffset(columns, i - 1),
       type |-> columns[i].type, length |-> columns[i].length] :
        i \in column_id + 1..Len(columns)}]

\* the column loop of Catalog::CreateTable: a pg_attribute row for every column,
\* the first with column_id 0
RECURSIVE InsertColumns(_, _, _, _, _)
InsertColumns(c, database_oid, table_oid, columns, column_id) ==
  IF column_id >= Len(columns) THEN c
  ELSE LET column == columns[column_id + 1]
           row == [database_oid |-> database_oid, table_oid |-> table_oid,
                   column_id |-> column_id, name |-> column.name,
                   offset |-> GetOffset(columns, column_id),
                   type |-> column.type, length |-> column.length]
       IN  InsertColumns([c EXCEPT !.pg_attribute = @ \cup {row}],
                         database_oid, table_oid, columns, column_id + 1)

\* a DropTable by OID that deletes the table's row and columns and nothing else
DropTableRows_ColumnsOnly(c, database_oid, table_oid) ==
  [c EXCEPT !.pg_attribute = {r \in @ : ~(r.database_oid = database_oid
                                           /\ r.table_oid = table_oid)},
            !.pg_table = {r \in @ : ~(r.database_oid = database_oid
                                       /\ r.oid = table_oid)}]

\* Catalog::DropTable, the overload taking OIDs, on the catalog rows: the table's
\* triggers, indexes, columns and layouts, then its own row
DropTableRows(c, database_oid, table_oid) ==
  LET Others(rows) == {r \in rows : ~(r.database_oid = database_oid
                                        /\ r.table_oid = table_oid)}
  IN  [c EXCEPT !.pg_trigger = Others(@),
                !.pg_index = Others(@),
                !.pg_attribute = Others(@),
                !.pg_layout = Others(@),
                !.pg_table = {r \in @ : ~(r.database_oid = database_oid
                                           /\ r.oid = table_oid)}]

\* Catalog::BootstrapSystemCatalogs: the database gets its SystemCatalogs in
\* catalog_map_ (emplace keeps an entry already there) and its default schema
BootstrapSystemCatalogs(c, database_oid) ==
  Issue([c EXCEPT
           !.catalog_map_ = IF database_oid \in DOMAIN @ THEN @
                            ELSE Put(@, database_oid, SystemCatalogs),
           !.pg_namespace = @ \cup {[database_oid |-> database_oid,
                                     oid |-> DEFAULT_SCHEMA_OID,
                                     name |-> DEFAULT_SCHEMA_NAME]}],
        "pg_namespace", database_oid, DEFAULT_SCHEMA_OID)

\* the rows of the catalog tables, which a transaction's abort takes back
Rows(c) == [pg_database |-> c.pg_database, pg_namespace |-> c.pg_namespace,
            pg_table |-> c.pg_table, pg_index |-> c.pg_index,
            pg_attribute |-> c.pg_attribute, pg_layout |-> c.pg_layout,
            pg_trigger |-> c.pg_trigger,
            pg_language |-> c.pg_language, pg_proc |-> c.pg_proc]

\* the transaction's end: the physical databases and tables it created
\* (RecordCreate) go when it aborts and those it dropped (RecordDrop) go when it
\* commits, so those left are the ones with a row in pg_database or pg_table
Collect(c) ==
  [c EXCEPT !.databases = {database_oid \in @ :
                             \E r \in c.pg_database : r.oid = database_oid},
            !.tables = [k \in {k \in DOMAIN @ : \E r \in c.pg_table :
                                  k = <<r.database_oid, r.oid>>} |-> @[k]]]

\* AbstractCatalog::UpdateOid: the counter is set to the value
UpdateOid(oid_, value) == value

\* LanguageCatalog::InsertLanguage: the language gets pg_language's next OID
InsertLanguage(c, name) ==
  LET language_oid == GetNextOid(c.pg_language_oid_)
  IN  Issue([c EXCEPT !.pg_language_oid_ = language_oid.oid_,
                      !.pg_language = @ \cup {[oid |-> language_oid.oid, name |-> name]}],
            "pg_language", CATALOG_DATABASE_OID, language_oid.oid)

\* ProcCatalog::InsertProc: the function gets pg_proc's next OID
InsertProc(c, name) ==
  LET proc_oid == GetNextOid(c.pg_proc_oid_)
  IN  Issue([c EXCEPT !.pg_proc_oid_ = proc_oid.oid_,
                      !.pg_proc = @ \cup {[oid |-> proc_oid.oid, name |-> name]}],
            "pg_proc", CATALOG_DATABASE_OID, proc_oid.oid)

\* an InitializeLanguages without the one-time flag
InitializeLanguages_EveryTime(c) ==
  [InsertLanguage(InsertLanguage(c, "internal"), "plpgsql")
     EXCEPT !.initialized.languages = TRUE]

\* Catalog::InitializeLanguages: the two languages, the first time only
InitializeLanguages(c) ==
  IF c.initialized.languages THEN c
  ELSE [InsertLanguage(InsertLanguage(c, "internal"), "plpgsql")
          EXCEPT !.initialized.languages = TRUE]

\* the calls of AddBuiltinFunction in Catalog::InitializeFunctions: each is an
\* InsertProc, so the functions get the next BuiltinFunctions OIDs of pg_proc in turn
AddBuiltinFunctions(c) ==
  LET oids == c.pg_proc_oid_ .. c.pg_proc_oid_ + BuiltinFunctions - 1
  IN  [c EXCEPT
         !.pg_proc_oid_ = @ + BuiltinFunctions,
         !.pg_proc = @ \cup {[oid |-> oid, name |-> <<"builtin", oid - c.pg_proc_oid_>>] :
                               oid \in oids},
         !.issued = @ (+) SetToBag({<<"pg_proc", CATALOG_DATABASE_OID, oid>> :
                                      oid \in oids})]

\* Catalog::InitializeFunctions: the builtin functions, the first time only
InitializeFunctions(c) ==
  IF c.initialized.functions THEN c
  ELSE IF \A r \in c.pg_language : r.name # "internal" THEN Returns(c, "exception")
  ELSE [AddBuiltinFunctions(c) EXCEPT !.initialized.functions = TRUE]

\* the catalog after Catalog::Catalog: the catalog database, its row and its
\* default schema; nothing is initialized and every counter is at START_OID
Catalog ==
  LET constructed ==
        BootstrapSystemCatalogs(
          [txn |-> "none",
           calls |-> 0,
           txns |-> 0,
           call |-> "none",
           result |-> "none",
           bootstraps |-> 0,
           initialized |-> [languages |-> FALSE, functions |-> FALSE],
           pg_database_oid_ |-> START_OID,
           pg_language_oid_ |-> START_OID,
           pg_proc_oid_ |-> START_OID,
           pg_database |-> {[oid |-> CATALOG_DATABASE_OID,
                             name |-> CATALOG_DATABASE_NAME]},
           pg_language |-> {},
           pg_proc |-> {},
           catalog_map_ |-> <<>>,
           pg_namespace |-> {},
           pg_table |-> {},
           pg_index |-> {},
           pg_attribute |-> {},
           pg_layout |-> {},
           pg_trigger |-> {},
           databases |-> {CATALOG_DATABASE_OID},
           tables |-> <<>>,
           snapshot |-> <<>>,
           system_oids |-> {},
           issued |-> SetToBag({<<"pg_database", CATALOG_DATABASE_OID,
                                  CATALOG_DATABASE_OID>>})],
          CATALOG_DATABASE_OID)
  IN  [constructed EXCEPT !.system_oids = BagToSet(constructed.issued)]

\* a Bootstrap that leaves the three counters where the system's inserts left them
Bootstrap_CountersKept(c) ==
  LET initialized == InitializeFunctions(InitializeLanguages(c))
  IN  IF initialized.result = "exception" THEN initialized
      ELSE [initialized EXCEPT
              !.system_oids = @ \cup (BagToSet(initialized.issued)
                                        \ BagToSet(c.issued)),
              !.bootstraps = @ + 1,
              !.result = "none"]

\* Catalog::Bootstrap: the languages and the builtin functions, then the counters
\* of pg_database, pg_language and pg_proc go to the offset for users; the OIDs
\* handed out up to here are the system's
Bootstrap(c) ==
  LET initialized == InitializeFunctions(InitializeLanguages(c))
  IN  IF initialized.result = "exception" THEN initialized
      ELSE [initialized EXCEPT
              !.pg_database_oid_ = UpdateOid(@, OID_FOR_USER_OFFSET),
              !.pg_language_oid_ = UpdateOid(@, OID_FOR_USER_OFFSET),
              !.pg_proc_oid_ = UpdateOid(@, OID_FOR_USER_OFFSET),
              !.system_oids = @ \cup (BagToSet(initialized.issued)
                                        \ BagToSet(c.issued)),
              !.bootstraps = @ + 1,
              !.result = "none"]

\* the catalog the DDL calls start from: constructed, and Bootstrap called once
InitCatalog ==
  /\ InitCheckpointIdle
  /\ InitRecoveryIdle
  /\ InitVisibleIdle
  /\ cat = Bootstrap(Catalog)

\* the OIDs the model lets a counter of a database's catalog hand out end below this
OidLimit == OID_FOR_USER_OFFSET + MaxObjectOids
\* the process is up: no call has dereferenced a missing catalog_map_ entry
CatalogUp == cat.result # "crash"
\* a call made without a transaction
NoTxn(c) == c.txn = "none"
\* the caller may make a call: its transaction has made fewer than MaxCallsPerTxn
MayCall == CatalogUp /\ cat.bootstraps >= 1 /\ cat.calls < MaxCallsPerTxn
\* the call is one more call of its transaction, and the last call made
Called(call, c) == [c EXCEPT !.calls = IF c.txn = "active" THEN @ + 1 ELSE @,
                             !.call = call]
\* the counter of a catalog table of the database has n OIDs left below OidLimit
Room(database_name, table, n) ==
  \A r \in GetDatabaseCatalogEntry(cat, database_name) :
    r.oid \in DOMAIN cat.catalog_map_ =>
      cat.catalog_map_[r.oid][table] + n <= OidLimit

BeginTransaction ==
  /\ CatalogUp
  /\ cat.txn = "none"
  /\ cat.txns < MaxTxns
  /\ cat' = [cat EXCEPT !.txn = "active", !.snapshot = Rows(cat), !.result = "none",
                        !.call = "none",
                        !.calls = 0, !.txns = @ + 1]
  /\ UNCHANGED <<ckpt_vars, rec_vars, vis_vars>>

CommitTransaction ==
  /\ CatalogUp
  /\ cat.txn = "active"
  /\ cat' = Collect([cat EXCEPT !.txn = "none", !.snapshot = <<>>, !.result = "none",
                                !.call = "none",
                                !.calls = 0])
  /\ UNCHANGED <<ckpt_vars, rec_vars, vis_vars>>

\* the rows go back to what they were; counters and catalog_map_ are not rows
AbortTransaction ==
  /\ CatalogUp
  /\ cat.txn = "active"
  /\ cat' = Collect([cat EXCEPT !.txn = "none", !.snapshot = <<>>, !.result = "none",
                                !.call = "none",
                                !.calls = 0,
                                !.pg_database = cat.snapshot.pg_database,
                                !.pg_namespace = cat.snapshot.pg_namespace,
                                !.pg_table = cat.snapshot.pg_table,
                                !.pg_index = cat.snapshot.pg_index,
                                !.pg_attribute = cat.snapshot.pg_attribute,
                                !.pg_layout = cat.snapshot.pg_layout,
                                !.pg_trigger = cat.snapshot.pg_trigger,
                                !.pg_language = cat.snapshot.pg_language,
                                !.pg_proc = cat.snapshot.pg_proc])
  /\ UNCHANGED <<ckpt_vars, rec_vars, vis_vars>>

\* a CreateDatabase that takes the database OID before it looks for the name
CreateDatabase_AllocatesFirst ==
  /\ MayCall
  /\ cat.pg_database_oid_ < OID_FOR_USER_OFFSET + MaxDatabaseOids
  /\ \E database_name \in DatabaseNames :
       cat' = Called("CreateDatabase",
         IF NoTxn(cat) THEN Returns(cat, "exception")
         ELSE
           LET database_oid == GetNextOid(cat.pg_database_oid_)
               allocated == [cat EXCEPT !.pg_database_oid_ = database_oid.oid_]
               inserted ==
                 Issue([allocated EXCEPT
                          !.databases = @ \cup {database_oid.oid},
                          !.pg_database = @ \cup {[oid |-> database_oid.oid,
                                                   name |-> database_name]},
                          !.result = "SUCCESS"],
                       "pg_database", CATALOG_DATABASE_OID, database_oid.oid)
           IN  IF GetDatabaseCatalogEntry(cat, database_name) # {}
                 THEN Returns(allocated, "exception")
                 ELSE BootstrapSystemCatalogs(inserted, database_oid.oid))
  /\ UNCHANGED <<ckpt_vars, rec_vars, vis_vars>>

\* Catalog::CreateDatabase
CreateDatabase ==
  /\ MayCall
  /\ cat.pg_database_oid_ < OID_FOR_USER_OFFSET + MaxDatabaseOids
  /\ \E database_name \in DatabaseNames :
       cat' = Called("CreateDatabase", 
         IF NoTxn(cat) THEN Returns(cat, "exception")
         ELSE IF GetDatabaseCatalogEntry(cat, database_name) # {}
           THEN Returns(cat, "exception")
         ELSE
           LET database_oid == GetNextOid(cat.pg_database_oid_)
               inserted ==
                 Issue([cat EXCEPT
                          !.pg_database_oid_ = database_oid.oid_,
                          !.databases = @ \cup {database_oid.oid},
                          !.pg_database = @ \cup {[oid |-> database_oid.oid,
                                                   name |-> database_name]},
                          !.result = "SUCCESS"],
                       "pg_database", CATALOG_DATABASE_OID, database_oid.oid)
           IN  BootstrapSystemCatalogs(inserted, database_oid.oid))
  /\ UNCHANGED <<ckpt_vars, rec_vars, vis_vars>>

\* Catalog::CreateSchema
CreateSchema ==
  /\ MayCall
  /\ \E database_name \in DatabaseNames, schema_name \in NamespaceNames :
       /\ Room(database_name, "pg_namespace", 1)
       /\ cat' = Called("CreateSchema", 
         IF NoTxn(cat) THEN Returns(cat, "exception")
         ELSE IF GetDatabaseCatalogEntry(cat, database_name) = {}
           THEN Returns(cat, "exception")
         ELSE
           LET database_oid == TheOid(GetDatabaseCatalogEntry(cat, database_name))
           IN  IF database_oid \notin DOMAIN cat.catalog_map_
                 THEN Returns(cat, "crash")
               ELSE IF GetSchemaCatalogEntry(cat, database_oid, schema_name) # {}
                 THEN Returns(cat, "exception")
               ELSE
                 LET schema_oid == GetNextOid(cat.catalog_map_[database_oid].pg_namespace)
                 IN  Issue([cat EXCEPT
                              !.catalog_map_[database_oid].pg_namespace = schema_oid.oid_,
                              !.pg_namespace = @ \cup {[database_oid |-> database_oid,
                                                        oid |-> schema_oid.oid,
                                                        name |-> schema_name]},
                              !.result = "SUCCESS"],
                           "pg_namespace", database_oid, schema_oid.oid))
  /\ UNCHANGED <<ckpt_vars, rec_vars, vis_vars>>

\* the index OIDs a call of CreateTable with these columns takes
IndexesOf(columns) ==
  Cardinality({i \in 1..Len(columns) : columns[i].unique})
    + (IF \E i \in 1..Len(columns) : columns[i].primary THEN 1 ELSE 0)

\* the catalog after Catalog::CreateTable; layout_ok is whether InsertLayout
\* succeeds at its end
CreateTableIn(c, database_name, schema_name, table_name, columns, layout_ok) ==
  IF NoTxn(c) THEN Returns(c, "exception")
  ELSE IF GetDatabaseCatalogEntry(c, database_name) = {}
    THEN Returns(c, "exception")
  ELSE
    LET database_oid == TheOid(GetDatabaseCatalogEntry(c, database_name))
    IN  IF database_oid \notin DOMAIN c.catalog_map_
          THEN Returns(c, "crash")
        ELSE IF GetSchemaCatalogEntry(c, database_oid, schema_name) = {}
          THEN Returns(c, "exception")
        ELSE IF GetTableCatalogEntry(c, database_oid, table_name,
                                     schema_name) # {}
          THEN Returns(c, "exception")
        ELSE IF \E i, j \in 1..Len(columns) :
                  i # j /\ columns[i].name = columns[j].name
          THEN Returns(c, "exception")
        ELSE
          LET table_oid == GetNextOid(c.catalog_map_[database_oid].pg_table)
              table == [layout_oid_ |-> ROW_STORE_LAYOUT_OID,
                        default_layout |-> ROW_STORE_LAYOUT_OID]
              inserted ==
                Issue([c EXCEPT
                         !.catalog_map_[database_oid].pg_table = table_oid.oid_,
                         !.tables = Put(@, <<database_oid, table_oid.oid>>, table),
                         !.pg_table = @ \cup {[database_oid |-> database_oid,
                                               oid |-> table_oid.oid,
                                               schema_name |-> schema_name,
                                               name |-> table_name,
                                               default_layout_oid |->
                                                 table.default_layout]}],
                      "pg_table", database_oid, table_oid.oid)
              with_columns ==
                InsertColumns(inserted, database_oid, table_oid.oid, columns, 0)
              with_unique ==
                CreateUniqueIndexes(with_columns, database_oid, schema_name,
                                    table_oid.oid, table_name, columns, 1)
              with_primary ==
                CreatePrimaryIndex(with_unique, database_oid, schema_name,
                                   table_oid.oid, table_name, columns)
          IN  IF layout_ok
                THEN [with_primary EXCEPT
                        !.pg_layout = @ \cup {[database_oid |-> database_oid,
                                               table_oid |-> table_oid.oid,
                                               oid |-> table.default_layout]},
                        !.result = "SUCCESS"]
                ELSE Returns(with_primary, "exception")

\* a call of a CreateTable that has taken the table OID when it raises
CreateTableOf_AllocatesFirst(database_name, schema_name, columns, layout_ok) ==
  /\ MayCall
  /\ Room(database_name, "pg_table", 1)
  /\ Room(database_name, "pg_index", IndexesOf(columns))
  /\ LET done == CreateTableIn(cat, database_name, schema_name, NewTableName,
                               columns, layout_ok)
         database_object == GetDatabaseCatalogEntry(cat, database_name)
     IN  cat' = Called("CreateTable",
                  IF done.result = "exception" /\ ~NoTxn(cat) /\ database_object # {}
                    THEN [done EXCEPT
                            !.catalog_map_[TheOid(database_object)].pg_table = @ + 1]
                    ELSE done)
  /\ UNCHANGED <<ckpt_vars, rec_vars, vis_vars>>

\* a call of Catalog::CreateTable
CreateTableOf(database_name, schema_name, columns, layout_ok) ==
  /\ MayCall
  /\ Room(database_name, "pg_table", 1)
  /\ Room(database_name, "pg_index", IndexesOf(columns))
  /\ cat' = Called("CreateTable", CreateTableIn(cat, database_name, schema_name,
                                                NewTableName, columns, layout_ok))
  /\ UNCHANGED <<ckpt_vars, rec_vars, vis_vars>>

CreateTable ==
  \E database_name \in DatabaseNames, schema_name \in NamespaceNames,
     columns \in ColumnLists, layout_ok \in BOOLEAN :
    CreateTableOf(database_name, schema_name, columns, layout_ok)

\* Catalog::CreateIndex, the overload taking names
CreateIndexByName ==
  /\ MayCall
  /\ \E database_name \in DatabaseNames, schema_name \in NamespaceNames :
       /\ Room(database_name, "pg_index", 1)
       /\ LET table_name == NewTableName
              index_name == IndexName
          IN
          cat' = Called("CreateIndexByName", 
         IF NoTxn(cat) THEN Returns(cat, "exception")
         ELSE IF GetDatabaseCatalogEntry(cat, database_name) = {}
           THEN Returns(cat, "exception")
         ELSE
           LET database_oid == TheOid(GetDatabaseCatalogEntry(cat, database_name))
               table_object == GetTableCatalogEntry(cat, database_oid, table_name,
                                                    schema_name)
           IN  IF table_object = {} THEN Returns(cat, "exception")
               ELSE IF database_oid \notin DOMAIN cat.catalog_map_
                 THEN Returns(cat, "crash")
               ELSE CreateIndex(cat, database_oid, schema_name,
                                TheOid(table_object), FALSE, index_name))
  /\ UNCHANGED <<ckpt_vars, rec_vars, vis_vars>>

\* a loop that drops every table of the database
DropTables_OfDatabase(c, database_oid, table_oids) ==
  [c EXCEPT !.pg_trigger = {r \in @ : r.database_oid # database_oid},
            !.pg_index = {r \in @ : r.database_oid # database_oid},
            !.pg_attribute = {r \in @ : r.database_oid # database_oid},
            !.pg_layout = {r \in @ : r.database_oid # database_oid},
            !.pg_table = {r \in @ : r.database_oid # database_oid}]

\* the loop of Catalog::DropSchema: DropTable for every table of the schema
RECURSIVE DropTables(_, _, _)
DropTables(c, database_oid, table_oids) ==
  IF table_oids = {} THEN c
  ELSE LET table_oid == CHOOSE table_oid \in table_oids : TRUE
       IN  DropTables(DropTableRows(c, database_oid, table_oid), database_oid,
                      table_oids \ {table_oid})

\* a DropDatabaseWithOid that leaves the database's entry in catalog_map_
DropDatabaseWithOid_KeepsRegistry(c, database_oid) ==
  [c EXCEPT !.pg_trigger = {r \in @ : r.database_oid # database_oid},
            !.pg_index = {r \in @ : r.database_oid # database_oid},
            !.pg_attribute = {r \in @ : r.database_oid # database_oid},
            !.pg_layout = {r \in @ : r.database_oid # database_oid},
            !.pg_table = {r \in @ : r.database_oid # database_oid},
            !.pg_namespace = {r \in @ : r.database_oid # database_oid},
            !.pg_database = {r \in @ : r.oid # database_oid},
            !.result = "SUCCESS"]

\* Catalog::DropDatabaseWithOid on the rows and on catalog_map_
DropDatabaseWithOid(c, database_oid) ==
  [c EXCEPT !.pg_trigger = {r \in @ : r.database_oid # database_oid},
            !.pg_index = {r \in @ : r.database_oid # database_oid},
            !.pg_attribute = {r \in @ : r.database_oid # database_oid},
            !.pg_layout = {r \in @ : r.database_oid # database_oid},
            !.pg_table = {r \in @ : r.database_oid # database_oid},
            !.pg_namespace = {r \in @ : r.database_oid # database_oid},
            !.pg_database = {r \in @ : r.oid # database_oid},
            !.catalog_map_ = Remove(@, database_oid),
            !.result = "SUCCESS"]

\* a call of Catalog::DropDatabaseWithName
DropDatabaseWithNameOf(database_name) ==
  /\ MayCall
  /\ cat' = Called("DropDatabaseWithName", 
         IF NoTxn(cat) THEN Returns(cat, "exception")
         ELSE IF GetDatabaseCatalogEntry(cat, database_name) = {}
           THEN Returns(cat, "exception")
         ELSE
           LET database_oid == TheOid(GetDatabaseCatalogEntry(cat, database_name))
           IN  IF /\ database_oid \notin DOMAIN cat.catalog_map_
                  /\ \E r \in cat.pg_table : r.database_oid = database_oid
                 THEN Returns(cat, "crash")
                 ELSE DropDatabaseWithOid(cat, database_oid))
  /\ UNCHANGED <<ckpt_vars, rec_vars, vis_vars>>

DropDatabaseWithName ==
  \E database_name \in DatabaseNames : DropDatabaseWithNameOf(database_name)

\* a call of Catalog::DropSchema
DropSchemaOf(database_name, schema_name) ==
  /\ MayCall
  /\ cat' = Called("DropSchema", 
         IF NoTxn(cat) THEN Returns(cat, "exception")
         ELSE IF GetDatabaseCatalogEntry(cat, database_name) = {}
           THEN Returns(cat, "exception")
         ELSE
           LET database_oid == TheOid(GetDatabaseCatalogEntry(cat, database_name))
           IN  IF database_oid \notin DOMAIN cat.catalog_map_
                 THEN Returns(cat, "crash")
               ELSE IF GetSchemaCatalogEntry(cat, database_oid, schema_name) = {}
                 THEN Returns(cat, "exception")
               ELSE
                 LET table_oids == {r.oid : r \in {r \in cat.pg_table :
                                      /\ r.database_oid = database_oid
                                      /\ r.schema_name = schema_name}}
                 IN  [DropTables(cat, database_oid, table_oids) EXCEPT
                        !.pg_namespace = {r \in @ : ~(r.database_oid = database_oid
                                                       /\ r.name = schema_name)},
                        !.result = "SUCCESS"])
  /\ UNCHANGED <<ckpt_vars, rec_vars, vis_vars>>

DropSchema ==
  \E database_name \in DatabaseNames, schema_name \in NamespaceNames :
    DropSchemaOf(database_name, schema_name)

\* a call of a DropTable by name that drops the tables of that name in every schema
DropTableOf_AnySchema(database_name, schema_name) ==
  /\ MayCall
  /\ LET table_name == NewTableName IN
       cat' = Called("DropTable",
         IF NoTxn(cat) THEN Returns(cat, "exception")
         ELSE IF GetDatabaseCatalogEntry(cat, database_name) = {}
           THEN Returns(cat, "exception")
         ELSE
           LET database_oid == TheOid(GetDatabaseCatalogEntry(cat, database_name))
               table_objects == {r \in cat.pg_table : /\ r.database_oid = database_oid
                                                      /\ r.name = table_name}
           IN  IF table_objects = {} THEN Returns(cat, "exception")
               ELSE IF database_oid \notin DOMAIN cat.catalog_map_
                 THEN Returns(cat, "crash")
               ELSE Returns(DropTables(cat, database_oid,
                                       {r.oid : r \in table_objects}),
                            "SUCCESS"))
  /\ UNCHANGED <<ckpt_vars, rec_vars, vis_vars>>

\* a call of Catalog::DropTable, the overload taking names, and the overload
\* taking OIDs under it
DropTableOf(database_name, schema_name) ==
  /\ MayCall
  /\ LET table_name == NewTableName IN
       cat' = Called("DropTable",
         IF NoTxn(cat) THEN Returns(cat, "exception")
         ELSE IF GetDatabaseCatalogEntry(cat, database_name) = {}
           THEN Returns(cat, "exception")
         ELSE
           LET database_oid == TheOid(GetDatabaseCatalogEntry(cat, database_name))
               table_object == GetTableCatalogEntry(cat, database_oid, table_name,
                                                    schema_name)
           IN  IF table_object = {} THEN Returns(cat, "exception")
               ELSE IF database_oid \notin DOMAIN cat.catalog_map_
                 THEN Returns(cat, "crash")
               ELSE Returns(DropTableRows(cat, database_oid, TheOid(table_object)),
                            "SUCCESS"))
  /\ UNCHANGED <<ckpt_vars, rec_vars, vis_vars>>

DropTable ==
  \E database_name \in DatabaseNames, schema_name \in NamespaceNames :
    DropTableOf(database_name, schema_name)

\* Catalog::DropIndex
DropIndex ==
  /\ MayCall
  /\ \E database_oid \in {r.oid : r \in cat.pg_database},
        index_oid \in OID_FOR_USER_OFFSET..OidLimit - 1 :
       cat' = Called("DropIndex", 
         IF NoTxn(cat) THEN Returns(cat, "exception")
         ELSE IF database_oid \notin DOMAIN cat.catalog_map_
           THEN Returns(cat, "crash")
         ELSE IF {r \in cat.pg_index : r.database_oid = database_oid
                                        /\ r.oid = index_oid} = {}
           THEN Returns(cat, "exception")
         ELSE [cat EXCEPT !.pg_index = {r \in @ : ~(r.database_oid = database_oid
                                                     /\ r.oid = index_oid)},
                          !.result = "SUCCESS"])
  /\ UNCHANGED <<ckpt_vars, rec_vars, vis_vars>>

NextCatalog ==
  \/ BeginTransaction
  \/ CommitTransaction
  \/ AbortTransaction
  \/ CreateDatabase
  \/ CreateSchema
  \/ CreateTable
  \/ CreateIndexByName
  \/ DropDatabaseWithName
  \/ DropSchema
  \/ DropTable
  \/ DropIndex

SpecCatalog == InitCatalog /\ [][NextCatalog]_vars

\* C10: whatever Create and Drop calls are made, in one or several transactions,
\* succeeding or failing, no OID is given to two objects of the same catalog table
\* (databases; schemas, tables or indexes of one database)
C10_OidsNeverReused ==
  \A e \in DOMAIN cat.issued : cat.issued[e] = 1

\* a database was created a second time (the first was dropped, or its creation
\* aborted), and one database has handed out OIDs to two tables and two indexes
C10_Witness ==
  /\ Cardinality({e \in DOMAIN cat.issued : e[1] = "pg_database"}) >= 3
  /\ \E d \in DOMAIN cat.catalog_map_ :
       /\ Cardinality({e \in DOMAIN cat.issued : e[1] = "pg_table" /\ e[2] = d}) >= 2
       /\ Cardinality({e \in DOMAIN cat.issued : e[1] = "pg_index" /\ e[2] = d}) >= 2

\* ------------------------------------------------------------------------
\* Catalog: Bootstrap and the OIDs of databases, languages and functions
\* ------------------------------------------------------------------------
\* a call of Catalog::Bootstrap, made outside the caller's transactions
CallBootstrap ==
  /\ CatalogUp
  /\ cat.txn = "none"
  /\ cat.bootstraps < MaxBootstraps
  /\ cat' = [Bootstrap(cat) EXCEPT !.call = "Bootstrap"]
  /\ UNCHANGED <<ckpt_vars, rec_vars, vis_vars>>

\* Catalog::AddProcedure in a transaction; inserted is whether InsertProc succeeds,
\* and a failing InsertProc has taken its OID
AddProcedure ==
  /\ MayCall
  /\ cat.txn = "active"
  /\ cat.pg_proc_oid_ < OID_FOR_USER_OFFSET + MaxProcOids
  /\ \E name \in ProcNames, inserted \in BOOLEAN :
       cat' = Called("AddProcedure", 
         IF \E r \in cat.pg_proc : r.name = name THEN Returns(cat, "SUCCESS")
         ELSE IF ~inserted
           THEN Returns([cat EXCEPT !.pg_proc_oid_ = GetNextOid(@).oid_], "exception")
         ELSE Returns(InsertProc(cat, name), "SUCCESS"))
  /\ UNCHANGED <<ckpt_vars, rec_vars, vis_vars>>

\* LanguageCatalog::InsertLanguage called in a user's transaction
InsertUserLanguage ==
  /\ MayCall
  /\ cat.txn = "active"
  /\ cat.pg_language_oid_ < OID_FOR_USER_OFFSET + MaxLanguageOids
  /\ \E name \in LanguageNames :
       cat' = Called("InsertUserLanguage", Returns(InsertLanguage(cat, name), "SUCCESS"))
  /\ UNCHANGED <<ckpt_vars, rec_vars, vis_vars>>

InitBootstrap ==
  /\ InitCheckpointIdle
  /\ InitRecoveryIdle
  /\ InitVisibleIdle
  /\ cat = Catalog

NextBootstrap ==
  \/ CallBootstrap
  \/ BeginTransaction
  \/ CommitTransaction
  \/ AbortTransaction
  \/ CreateDatabase
  \/ AddProcedure
  \/ InsertUserLanguage

SpecBootstrap == InitBootstrap /\ [][NextBootstrap]_vars

\* the catalog tables whose counters Bootstrap moves to the offset for users
GlobalCatalogs == {"pg_database", "pg_language", "pg_proc"}

\* C11: once Bootstrap has run, every OID handed to a database, language or
\* function created by a user is at least OID_FOR_USER_OFFSET, every OID the
\* system handed out is below it, and no OID of the system was handed out again
C11_UserOidsAboveOffset ==
  cat.bootstraps >= 1 =>
    \A e \in DOMAIN cat.issued :
      e[1] \in GlobalCatalogs =>
        IF e \in cat.system_oids
          THEN e[3] < OID_FOR_USER_OFFSET /\ cat.issued[e] = 1
          ELSE e[3] >= OID_FOR_USER_OFFSET

\* after Bootstrap a user has created a database, a language and a function
C11_Witness ==
  /\ cat.bootstraps >= 1
  /\ \A table \in GlobalCatalogs :
       \E e \in DOMAIN cat.issued : e[1] = table /\ e \notin cat.system_oids

\* ------------------------------------------------------------------------
\* Catalog: a table's layouts and triggers, and DropTable by OID
\* ------------------------------------------------------------------------
\* what a catalog table's own method does when it is handed a null transaction:
\* it raises, or it dereferences the pointer
NullTxnOutcomes == {"exception", "crash"}

GetLayoutWithOid(c, database_oid, table_oid, layout_oid) ==
  {r \in c.pg_layout : /\ r.database_oid = database_oid
                       /\ r.table_oid = table_oid
                       /\ r.oid = layout_oid}

\* a CreateLayout that makes the new layout the physical table's default layout
CreateLayout_SetsDefault(c, database_oid, table_oid, of_null_txn, inserted) ==
  LET layout_oid == GetNextLayoutOid(c.tables[<<database_oid, table_oid>>].layout_oid_)
      counted == [c EXCEPT !.tables[<<database_oid, table_oid>>].layout_oid_ =
                             layout_oid.oid_,
                           !.issued = @ (+) SetToBag({<<"pg_layout", database_oid,
                                                        table_oid, layout_oid.oid>>})]
  IN  IF database_oid \notin DOMAIN c.catalog_map_ THEN Returns(counted, "crash")
      ELSE IF NoTxn(c) THEN Returns(counted, of_null_txn)
      ELSE IF GetLayoutWithOid(c, database_oid, table_oid, layout_oid.oid) = {}
              /\ ~inserted
        THEN Returns(counted, "nullptr")
      ELSE [counted EXCEPT !.pg_layout = @ \cup {[database_oid |-> database_oid,
                                                  table_oid |-> table_oid,
                                                  oid |-> layout_oid.oid]},
                           !.tables[<<database_oid, table_oid>>].default_layout =
                             layout_oid.oid,
                           !.result = "SUCCESS"]

\* Catalog::CreateLayout; of_null_txn is what pg_layout does with a null
\* transaction and inserted is whether its InsertLayout succeeds; the layout id
\* handed out is recorded among the issued ids
CreateLayout(c, database_oid, table_oid, of_null_txn, inserted) ==
  LET layout_oid == GetNextLayoutOid(c.tables[<<database_oid, table_oid>>].layout_oid_)
      counted == [c EXCEPT !.tables[<<database_oid, table_oid>>].layout_oid_ =
                             layout_oid.oid_,
                           !.issued = @ (+) SetToBag({<<"pg_layout", database_oid,
                                                        table_oid, layout_oid.oid>>})]
  IN  IF database_oid \notin DOMAIN c.catalog_map_ THEN Returns(counted, "crash")
      ELSE IF NoTxn(c) THEN Returns(counted, of_null_txn)
      ELSE IF GetLayoutWithOid(c, database_oid, table_oid, layout_oid.oid) = {}
              /\ ~inserted
        THEN Returns(counted, "nullptr")
      ELSE [counted EXCEPT !.pg_layout = @ \cup {[database_oid |-> database_oid,
                                                  table_oid |-> table_oid,
                                                  oid |-> layout_oid.oid]},
                           !.result = "SUCCESS"]

\* TableCatalog::UpdateDefaultLayoutOid
UpdateDefaultLayoutOid(c, database_oid, table_oid, layout_oid) ==
  [c EXCEPT !.pg_table = {IF r.database_oid = database_oid /\ r.oid = table_oid
                            THEN [r EXCEPT !.default_layout_oid = layout_oid]
                            ELSE r : r \in @}]

\* Catalog::CreateDefaultLayout
CreateDefaultLayout(c, database_oid, table_oid, of_null_txn, inserted) ==
  LET new_layout == CreateLayout(c, database_oid, table_oid, of_null_txn, inserted)
      layout_oid == new_layout.tables[<<database_oid, table_oid>>].layout_oid_
  IN  IF new_layout.result # "SUCCESS" THEN new_layout
      ELSE UpdateDefaultLayoutOid(
             [new_layout EXCEPT
                !.tables[<<database_oid, table_oid>>].default_layout = layout_oid],
             database_oid, table_oid, layout_oid)

\* a DropLayout that resets the physical table's default layout and leaves the
\* table's row in pg_table as it was
DropLayout_TableCatalogKept(c, database_oid, table_oid, layout_oid, of_null_txn, deleted, inserted) ==
  LET default_layout == c.tables[<<database_oid, table_oid>>].default_layout
      without == [c EXCEPT !.pg_layout =
                             @ \ GetLayoutWithOid(c, database_oid, table_oid, layout_oid)]
      reset == [without EXCEPT !.tables[<<database_oid, table_oid>>].default_layout =
                                 ROW_STORE_LAYOUT_OID]
  IN  IF database_oid \notin DOMAIN c.catalog_map_ THEN Returns(c, "crash")
      ELSE IF NoTxn(c) THEN Returns(c, of_null_txn)
      ELSE IF ~deleted THEN Returns(c, "FAILURE")
      ELSE IF default_layout # layout_oid THEN Returns(without, "SUCCESS")
      ELSE IF GetLayoutWithOid(reset, database_oid, table_oid, ROW_STORE_LAYOUT_OID) = {}
              /\ ~inserted
        THEN Returns(reset, "FAILURE")
      ELSE [reset EXCEPT !.pg_layout = @ \cup {[database_oid |-> database_oid,
                                                table_oid |-> table_oid,
                                                oid |-> ROW_STORE_LAYOUT_OID]},
                         !.result = "SUCCESS"]

\* a DropLayout that resets the default layout to the row store without looking
\* for the row-store layout's row in pg_layout
DropLayout_RowNotRestored(c, database_oid, table_oid, layout_oid, of_null_txn, deleted, inserted) ==
  LET default_layout == c.tables[<<database_oid, table_oid>>].default_layout
      without == [c EXCEPT !.pg_layout =
                             @ \ GetLayoutWithOid(c, database_oid, table_oid, layout_oid)]
      reset == [without EXCEPT !.tables[<<database_oid, table_oid>>].default_layout =
                                 ROW_STORE_LAYOUT_OID]
  IN  IF database_oid \notin DOMAIN c.catalog_map_ THEN Returns(c, "crash")
      ELSE IF NoTxn(c) THEN Returns(c, of_null_txn)
      ELSE IF ~deleted THEN Returns(c, "FAILURE")
      ELSE IF default_layout # layout_oid THEN Returns(without, "SUCCESS")
      ELSE UpdateDefaultLayoutOid([reset EXCEPT !.result = "SUCCESS"],
                                  database_oid, table_oid, ROW_STORE_LAYOUT_OID)

\* Catalog::DropLayout; deleted and inserted are whether pg_layout's DeleteLayout
\* and InsertLayout succeed
DropLayout(c, database_oid, table_oid, layout_oid, of_null_txn, deleted, inserted) ==
  LET default_layout == c.tables[<<database_oid, table_oid>>].default_layout
      without == [c EXCEPT !.pg_layout =
                             @ \ GetLayoutWithOid(c, database_oid, table_oid, layout_oid)]
      reset == [without EXCEPT !.tables[<<database_oid, table_oid>>].default_layout =
                                 ROW_STORE_LAYOUT_OID]
  IN  IF database_oid \notin DOMAIN c.catalog_map_ THEN Returns(c, "crash")
      ELSE IF NoTxn(c) THEN Returns(c, of_null_txn)
      ELSE IF ~deleted THEN Returns(c, "FAILURE")
      ELSE IF default_layout # layout_oid THEN Returns(without, "SUCCESS")
      ELSE IF GetLayoutWithOid(reset, database_oid, table_oid, ROW_STORE_LAYOUT_OID) = {}
              /\ ~inserted
        THEN Returns(reset, "FAILURE")
      ELSE UpdateDefaultLayoutOid(
             [reset EXCEPT !.pg_layout = @ \cup {[database_oid |-> database_oid,
                                                  table_oid |-> table_oid,
                                                  oid |-> ROW_STORE_LAYOUT_OID]},
                           !.result = "SUCCESS"],
             database_oid, table_oid, ROW_STORE_LAYOUT_OID)

\* a call of Catalog::CreateLayout on the physical table k
CallCreateLayoutOf(k, of_null_txn, inserted) ==
  /\ MayCall
  /\ k \in DOMAIN cat.tables
  /\ cat.tables[k].layout_oid_ < MaxLayoutOids
  /\ cat' = Called("CreateLayout", CreateLayout(cat, k[1], k[2], of_null_txn, inserted))
  /\ UNCHANGED <<ckpt_vars, rec_vars, vis_vars>>

CallCreateLayout ==
  \E k \in DOMAIN cat.tables, of_null_txn \in NullTxnOutcomes, inserted \in BOOLEAN :
    CallCreateLayoutOf(k, of_null_txn, inserted)

\* a call of Catalog::CreateDefaultLayout on a physical table
CallCreateDefaultLayout ==
  /\ MayCall
  /\ \E k \in DOMAIN cat.tables, of_null_txn \in NullTxnOutcomes, inserted \in BOOLEAN :
       /\ cat.tables[k].layout_oid_ < MaxLayoutOids
       /\ cat' = Called("CreateDefaultLayout", CreateDefaultLayout(cat, k[1], k[2], of_null_txn, inserted))
  /\ UNCHANGED <<ckpt_vars, rec_vars, vis_vars>>

\* a call of Catalog::DropLayout on the physical table k
CallDropLayoutOf(k, layout_oid, of_null_txn, deleted, inserted) ==
  /\ MayCall
  /\ k \in DOMAIN cat.tables
  /\ cat' = Called("DropLayout", DropLayout(cat, k[1], k[2], layout_oid, of_null_txn,
                                            deleted, inserted))
  /\ UNCHANGED <<ckpt_vars, rec_vars, vis_vars>>

\* the layout ids a caller names
LayoutOids == ROW_STORE_LAYOUT_OID..MaxLayoutOids

CallDropLayout ==
  \E k \in DOMAIN cat.tables, layout_oid \in LayoutOids,
     of_null_txn \in NullTxnOutcomes, deleted \in BOOLEAN, inserted \in BOOLEAN :
    CallDropLayoutOf(k, layout_oid, of_null_txn, deleted, inserted)

\* TriggerCatalog::InsertTrigger in a transaction, on a table it sees
CreateTrigger ==
  /\ MayCall
  /\ cat.txn = "active"
  /\ \E table \in cat.pg_table :
       cat' = Called("CreateTrigger", [cat EXCEPT !.pg_trigger = @ \cup {[database_oid |-> table.database_oid,
                                                        table_oid |-> table.oid,
                                                        name |-> TriggerName]},
                                 !.result = "SUCCESS"])
  /\ UNCHANGED <<ckpt_vars, rec_vars, vis_vars>>

\* Catalog::DropTable, the overload taking OIDs, called on a physical table
DropTableWithOid ==
  /\ MayCall
  /\ \E k \in DOMAIN cat.tables, of_null_txn \in NullTxnOutcomes :
       LET database_oid == k[1]
           table_oid == k[2]
       IN  cat' = Called("DropTableWithOid", 
             IF NoTxn(cat) THEN Returns(cat, of_null_txn)
             ELSE IF \A r \in cat.pg_database : r.oid # database_oid
               THEN Returns(cat, "crash")
             ELSE IF \A r \in cat.pg_table : ~(r.database_oid = database_oid
                                                /\ r.oid = table_oid)
               THEN Returns(cat, "crash")
             ELSE IF database_oid \notin DOMAIN cat.catalog_map_
               THEN Returns(cat, "crash")
             ELSE Returns(DropTableRows(cat, database_oid, table_oid), "SUCCESS"))
  /\ UNCHANGED <<ckpt_vars, rec_vars, vis_vars>>

NextTable ==
  \/ BeginTransaction
  \/ CommitTransaction
  \/ AbortTransaction
  \/ CreateDatabase
  \/ CreateTable
  \/ CreateIndexByName
  \/ CreateTrigger
  \/ CallCreateLayout
  \/ CallCreateDefaultLayout
  \/ CallDropLayout
  \/ DropTable
  \/ DropTableWithOid

SpecTable == InitCatalog /\ [][NextTable]_vars

\* C12: a DDL call made with a null transaction raises CatalogException and
\* leaves the catalog rows, the OID counters, the registry and the physical
\* tables as they were
C12_NullTransactionRaises ==
  [][(NoTxn(cat) /\ NoTxn(cat') /\ cat'.bootstraps = cat.bootstraps) =>
       /\ cat'.result = "exception"
       /\ [cat' EXCEPT !.result = cat.result, !.call = cat.call] = cat]_vars

\* ------------------------------------------------------------------------
\* Catalog: the calls that fail leave the catalog as it was
\* ------------------------------------------------------------------------
\* the step left everything but the record of the call itself as it was: rows,
\* OID counters, handed-out OIDs, registry, physical databases and tables
NothingChanged ==
  [cat' EXCEPT !.call = cat.call, !.result = cat.result, !.calls = cat.calls] = cat

\* C13: CreateDatabase called in a transaction that sees a database of that name
\* raises CatalogException, and the step takes no database OID, adds no physical
\* database, inserts no pg_database row and registers no SystemCatalogs
C13_CreateDatabaseExisting ==
  [][(/\ CreateDatabase
      /\ ~NoTxn(cat)
      /\ \A database_name \in DatabaseNames :
           GetDatabaseCatalogEntry(cat, database_name) # {})
       => (cat'.result = "exception" /\ NothingChanged)]_vars

\* CreateDatabase has raised in a transaction that sees the database it was asked
\* to create
C13_Witness ==
  /\ cat.call = "CreateDatabase"
  /\ cat.result = "exception"
  /\ cat.txn = "active"
  /\ \A database_name \in DatabaseNames : GetDatabaseCatalogEntry(cat, database_name) # {}

\* the reasons the claim names for which CreateTable raises: no such database, no
\* such schema, a table of that name in the schema, two columns of one name
CreateTableRefused(database_name, schema_name, columns) ==
  LET database_object == GetDatabaseCatalogEntry(cat, database_name)
      database_oid == TheOid(database_object)
  IN  \/ database_object = {}
      \/ /\ database_oid \in DOMAIN cat.catalog_map_
         /\ \/ GetSchemaCatalogEntry(cat, database_oid, schema_name) = {}
            \/ GetTableCatalogEntry(cat, database_oid, NewTableName, schema_name) # {}
            \/ \E i, j \in 1..Len(columns) : i # j /\ columns[i].name = columns[j].name

GetColumnCatalogEntries(c, database_oid, table_oid) ==
  {r \in c.pg_attribute : r.database_oid = database_oid /\ r.table_oid = table_oid}

\* the sum of the lengths of the rows before the column_id-th
RECURSIVE LengthsBefore(_, _)
LengthsBefore(rows, column_id) ==
  IF column_id = 0 THEN 0
  ELSE LET before == CHOOSE r \in rows : r.column_id = column_id - 1
       IN  LengthsBefore(rows, column_id - 1) + before.length

\* C15: after a successful CreateTable with n columns pg_attribute holds exactly
\* n rows for the new table, and for every i < n exactly one of them has
\* column_id i; it has the name, type and length of the i-th declared column and
\* the offset at which the columns before it end, so the rows in the order of
\* column_id are the declared columns in their order
C15_ColumnsInDeclaredOrder ==
  [][\A database_name \in DatabaseNames, schema_name \in NamespaceNames,
        columns \in ColumnLists, layout_ok \in BOOLEAN :
       (/\ CreateTableOf(database_name, schema_name, columns, layout_ok)
        /\ cat'.result = "SUCCESS")
         => /\ Cardinality(cat'.pg_table \ cat.pg_table) = 1
            /\ \A table \in cat'.pg_table \ cat.pg_table :
                 LET rows == GetColumnCatalogEntries(cat', table.database_oid, table.oid)
                 IN  /\ Cardinality(rows) = Len(columns)
                     /\ \A i \in 0..Len(columns) - 1 :
                          /\ Cardinality({r \in rows : r.column_id = i}) = 1
                          /\ \A r \in rows :
                               r.column_id = i =>
                                 /\ r.name = columns[i + 1].name
                                 /\ r.type = columns[i + 1].type
                                 /\ r.length = columns[i + 1].length
                                 /\ r.offset = LengthsBefore(rows, i)]_vars

\* CreateTable has succeeded for a table of two columns
C15_Witness ==
  /\ cat.call = "CreateTable"
  /\ cat.result = "SUCCESS"
  /\ \E table \in cat.pg_table :
       /\ Cardinality(GetColumnCatalogEntries(cat, table.database_oid, table.oid)) = 2
       /\ \A e \in DOMAIN cat.issued : e[1] = "pg_table" => e[3] = table.oid

\* C16: whatever CreateTable, DropTable and DropSchema calls were made, no two
\* pg_table rows of one database have the same schema name and table name
C16_TableNameUniqueInSchema ==
  \A r1, r2 \in cat.pg_table :
    (/\ r1.database_oid = r2.database_oid
     /\ r1.schema_name = r2.schema_name
     /\ r1.name = r2.name) => r1 = r2

\* two schemas of one database each have a table of the same name, created with
\* its layout, and one more CreateTable of that name has just raised
C16_Witness ==
  /\ cat.call = "CreateTable"
  /\ cat.result = "exception"
  /\ \E r1, r2 \in cat.pg_table :
       /\ r1.database_oid = r2.database_oid
       /\ r1.name = r2.name
       /\ r1.schema_name # r2.schema_name
  /\ cat.txn = "active"
  /\ \A r \in cat.pg_table :
       GetLayoutWithOid(cat, r.database_oid, r.oid, r.default_layout_oid) # {}

\* C17: whatever CreateTable and CreateIndex calls were made, no two pg_index
\* rows of one database have the same index name, whichever tables and schemas
\* the indexes belong to
C17_IndexNameUniqueInDatabase ==
  \A r1, r2 \in cat.pg_index :
    (r1.database_oid = r2.database_oid /\ r1.name = r2.name) => r1 = r2

\* the rows of pg_index, pg_attribute, pg_layout and pg_trigger that carry the
\* table's id
RowsOfTable(c, database_oid, table_oid) ==
  {r \in c.pg_index \cup c.pg_attribute \cup c.pg_layout \cup c.pg_trigger :
     r.database_oid = database_oid /\ r.table_oid = table_oid}

\* C18: a successful DropTable, by name or by OID, removes the table's pg_table
\* row and leaves no pg_index, pg_attribute, pg_layout or pg_trigger row that
\* carries the table's id
C18_DropTableCascades ==
  [][((DropTable \/ DropTableWithOid) /\ cat'.result = "SUCCESS") =>
       /\ Cardinality(cat.pg_table \ cat'.pg_table) = 1
       /\ \A table \in cat.pg_table \ cat'.pg_table :
            /\ RowsOfTable(cat', table.database_oid, table.oid) = {}
            /\ \A r \in cat'.pg_table :
                 ~(r.database_oid = table.database_oid /\ r.oid = table.oid)]_vars

\* DropTable has succeeded on a table that had a primary-key index, a
\* unique-column index, columns, a layout and a trigger when the transaction began
C18_Witness ==
  /\ cat.call \in {"DropTable", "DropTableWithOid"}
  /\ cat.result = "SUCCESS"
  /\ cat.txn = "active"
  /\ \E table \in cat.snapshot.pg_table \ cat.pg_table :
       /\ \E r \in cat.snapshot.pg_index :
            r.table_oid = table.oid /\ r.name = <<table.name, "_pkey">>
       /\ \E r \in cat.snapshot.pg_index :
            r.table_oid = table.oid /\ r.name # <<table.name, "_pkey">>
       /\ \E r \in cat.snapshot.pg_trigger : r.table_oid = table.oid
       /\ \E r \in cat.snapshot.pg_layout : r.table_oid = table.oid
       /\ \E r \in cat.snapshot.pg_attribute : r.table_oid = table.oid

\* the rows of the catalog tables of a database that belong to one of its schemas:
\* the schema's tables and the rows that carry their ids
RowsOfSchema(c, database_oid, schema_name) ==
  LET tables == {r \in c.pg_table : /\ r.database_oid = database_oid
                                    /\ r.schema_name = schema_name}
  IN  tables \cup UNION {RowsOfTable(c, table.database_oid, table.oid) : table \in tables}

C20_DropTableOneOrNone ==
  [][\A database_name \in DatabaseNames, schema_name \in NamespaceNames :
       (DropTableOf(database_name, schema_name) /\ ~NoTxn(cat)) =>
         LET database_object == GetDatabaseCatalogEntry(cat, database_name)
             table_object == GetTableCatalogEntry(cat, TheOid(database_object),
                                                  NewTableName, schema_name)
         IN  /\ (database_object # {} /\ table_object = {})
                  => (cat'.result = "exception" /\ NothingChanged)
             /\ cat'.result = "SUCCESS"
                  => /\ Cardinality(table_object) = 1
                     /\ cat'.pg_table = cat.pg_table \ table_object]_vars

\* the transaction has dropped the only table of the database, and a further
\* DropTable has raised
C20_Witness ==
  /\ cat.call = "DropTable"
  /\ cat.result = "exception"
  /\ cat.txn = "active"
  /\ \E database \in cat.pg_database :
       /\ database.name \in DatabaseNames
       /\ \E r \in cat.snapshot.pg_table : r.database_oid = database.oid
       /\ \A r \in cat.pg_table : r.database_oid # database.oid
       /\ \A schema_name \in NamespaceNames :
            GetSchemaCatalogEntry(cat, database.oid, schema_name) # {}

\* ------------------------------------------------------------------------
\* Catalog: what a dropped database leaves behind
\* ------------------------------------------------------------------------
\* the rows of the tables of a database and of what belongs to them
RowsOfDatabase(c, database_oid) ==
  {r \in c.pg_table \cup c.pg_attribute \cup c.pg_index \cup c.pg_layout
           \cup c.pg_trigger : r.database_oid = database_oid}

\* C21: after DropDatabaseWithName has returned SUCCESS, a lookup of the name in
\* the same transaction finds no database (GetDatabaseWithName raises
\* CatalogException), no table of the database has a row left in pg_table,
\* pg_attribute, pg_index, pg_layout or pg_trigger, and catalog_map_ has no entry
\* for the database's OID
C21_DropDatabaseWithName ==
  [][\A database_name \in DatabaseNames :
       (DropDatabaseWithNameOf(database_name) /\ cat'.result = "SUCCESS") =>
         LET database_oid == TheOid(GetDatabaseCatalogEntry(cat, database_name))
         IN  /\ cat'.txn = "active"
             /\ GetDatabaseCatalogEntry(cat', database_name) = {}
             /\ RowsOfDatabase(cat', database_oid) = {}
             /\ database_oid \notin DOMAIN cat'.catalog_map_]_vars

\* DropDatabaseWithName has succeeded on a database that had a table with
\* columns and an index when the transaction began
C21_Witness ==
  /\ cat.txn = "active"
  /\ cat.call = "DropDatabaseWithName"
  /\ cat.result = "SUCCESS"
  /\ \E table \in cat.snapshot.pg_table :
       /\ table.database_oid \notin DOMAIN cat.catalog_map_
       /\ \E r \in cat.snapshot.pg_index : r.table_oid = table.oid
       /\ \E r \in cat.snapshot.pg_attribute : r.table_oid = table.oid

\* ------------------------------------------------------------------------
\* Catalog: a table's default layout
\* ------------------------------------------------------------------------
\* the layout rows of the physical table k
LayoutsOf(c, k) == {r \in c.pg_layout : r.database_oid = k[1] /\ r.table_oid = k[2]}
\* the rows the table k has in pg_table
TableRowsOf(c, k) == {r \in c.pg_table : r.database_oid = k[1] /\ r.oid = k[2]}

\* a step that is a DropLayout, returning SUCCESS in a transaction, of the layout
\* that is the default layout of the physical table k
DropsDefaultLayout(k, layout_oid) ==
  /\ \E of_null_txn \in NullTxnOutcomes, deleted \in BOOLEAN, inserted \in BOOLEAN :
       CallDropLayoutOf(k, layout_oid, of_null_txn, deleted, inserted)
  /\ ~NoTxn(cat)
  /\ cat.tables[k].default_layout = layout_oid
  /\ cat'.result = "SUCCESS"

\* the effects of a DropLayout of the default layout other than on the dropped
\* layout's own row: the physical table's default layout is the row-store layout,
\* pg_table records ROW_STORE_LAYOUT_OID for the table, and every other layout row
\* of the table is still in pg_layout
DefaultLayoutReset(k, layout_oid) ==
  /\ cat'.tables[k].default_layout = ROW_STORE_LAYOUT_OID
  /\ \A r \in TableRowsOf(cat', k) : r.default_layout_oid = ROW_STORE_LAYOUT_OID
  /\ \A r \in LayoutsOf(cat, k) : r.oid # layout_oid => r \in cat'.pg_layout

DefaultLayoutsAgree(c) ==
  \A k \in DOMAIN c.tables :
    \A r \in TableRowsOf(c, k) : r.default_layout_oid = c.tables[k].default_layout

\* C23: a CreateTable, CreateLayout, CreateDefaultLayout or DropLayout called in
\* a transaction, whether it succeeds or fails, leaves the physical table's
\* default layout id equal to the default-layout-id pg_table records for the
\* table, when they were equal before the call
C23_DefaultLayoutAgrees ==
  [][((CreateTable \/ CallCreateLayout \/ CallCreateDefaultLayout \/ CallDropLayout)
        /\ ~NoTxn(cat)
        /\ DefaultLayoutsAgree(cat))
       => DefaultLayoutsAgree(cat')]_vars

\* C24: a CreateLayout that succeeds in a transaction adds exactly one row to
\* pg_layout, for the table it was called on and under a layout id that is not
\* the row-store layout's and was never handed out for that table before, and
\* leaves the physical table's default layout and the rows of pg_table as they were
C24_CreateLayoutFrame ==
  [][\A k \in DOMAIN cat.tables :
       ((\E of_null_txn \in NullTxnOutcomes, inserted \in BOOLEAN :
           CallCreateLayoutOf(k, of_null_txn, inserted))
          /\ ~NoTxn(cat)
          /\ cat'.result = "SUCCESS") =>
         LET layout_oid == cat'.tables[k].layout_oid_
             row == [database_oid |-> k[1], table_oid |-> k[2], oid |-> layout_oid]
         IN  /\ row \notin cat.pg_layout
             /\ cat'.pg_layout = cat.pg_layout \cup {row}
             /\ layout_oid # ROW_STORE_LAYOUT_OID
             /\ cat'.issued[<<"pg_layout", k[1], k[2], layout_oid>>] = 1
             /\ cat'.tables[k].default_layout = cat.tables[k].default_layout
             /\ cat'.pg_table = cat.pg_table]_vars

\* CreateLayout has succeeded on a table whose default layout is one that
\* CreateDefaultLayout installed, after an earlier layout id of the table was
\* handed out
C24_Witness ==
  /\ cat.txn = "active"
  /\ cat.call = "CreateLayout"
  /\ cat.result = "SUCCESS"
  /\ \E k \in DOMAIN cat.tables :
       /\ cat.tables[k].layout_oid_ = 2
       /\ cat.tables[k].default_layout = 1
       /\ \E r \in LayoutsOf(cat, k) : r.oid = 2
       /\ \A r \in TableRowsOf(cat, k) : r.default_layout_oid = 1
       /\ TableRowsOf(cat, k) # {}

\* ------------------------------------------------------------------------
\* Catalog: what Bootstrap inserts
\* ------------------------------------------------------------------------
\* the languages Catalog::InitializeLanguages inserts
SystemLanguages == {"internal", "plpgsql"}
\* the OIDs a step hands out for a global catalog table
HandedOut(table) ==
  BagCardinality(cat'.issued) - BagCardinality(cat.issued)
    - (BagCardinality([e \in {e \in DOMAIN cat'.issued : e[1] # table} |-> cat'.issued[e]])
       - BagCardinality([e \in {e \in DOMAIN cat.issued : e[1] # table} |-> cat.issued[e]]))

MaxOpsPerThread == 2
Threads == {1, 2}
NoThread == 0
\* the OID of the database a caller hands to the deprecated AddDatabase
AddedDatabaseOid == OID_FOR_USER_OFFSET + MaxDatabaseOids
\* what two unsynchronized modifications of the std::unordered_map may come to
\* for one of them: it took effect, it was lost, or the process crashed
RaceOutcomes == {"applied", "lost", "crash"}

\* the catalog as the threads see it: where each thread is (pc), the database
\* it works on (oid), the holder of catalog_mutex, the keys of catalog_map_,
\* the databases of the storage manager, pg_database's OID counter, the threads
\* inside a modification of catalog_map_ (writing) and those of them whose
\* modification overlapped another one (raced)
InitThreads ==
  /\ InitCheckpointIdle
  /\ InitRecoveryIdle
  /\ InitVisibleIdle
  /\ cat = [pc |-> [t \in Threads |-> "idle"],
            oid |-> [t \in Threads |-> CATALOG_DATABASE_OID],
            ops |-> [t \in Threads |-> 0],
            catalog_mutex |-> NoThread,
            catalog_map_ |-> {CATALOG_DATABASE_OID},
            databases |-> {CATALOG_DATABASE_OID},
            pg_database_oid_ |-> OID_FOR_USER_OFFSET,
            writing |-> {},
            raced |-> {},
            result |-> "none"]

\* a thread at rest that may start one more operation
MayStart(t) ==
  /\ cat.result # "crash"
  /\ cat.pc[t] = "idle"
  /\ cat.ops[t] < MaxOpsPerThread

\* Catalog::CreateDatabase up to the lock: the name is free, the OID is taken
CreateDatabaseGetNextOid(t) ==
  /\ MayStart(t)
  /\ cat.pg_database_oid_ < OID_FOR_USER_OFFSET + MaxDatabaseOids
  /\ LET database_oid == GetNextOid(cat.pg_database_oid_)
     IN  cat' = [cat EXCEPT !.pg_database_oid_ = database_oid.oid_,
                            !.oid[t] = database_oid.oid,
                            !.ops[t] = @ + 1,
                            !.pc[t] = "CreateDatabase:lock"]
  /\ UNCHANGED <<ckpt_vars, rec_vars, vis_vars>>

\* Catalog::CreateDatabase: the lock_guard's block, AddDatabaseToStorageManager
\* with catalog_mutex held
CreateDatabaseAddToStorageManager(t) ==
  /\ cat.result # "crash"
  /\ cat.pc[t] = "CreateDatabase:lock"
  /\ cat.catalog_mutex = NoThread
  /\ cat' = [cat EXCEPT !.catalog_mutex = t,
                        !.databases = @ \cup {cat.oid[t]},
                        !.pc[t] = "CreateDatabase:unlock"]
  /\ UNCHANGED <<ckpt_vars, rec_vars, vis_vars>>

\* Catalog::CreateDatabase: the block ends and catalog_mutex is released; what
\* follows is RecordCreate, InsertDatabase and BootstrapSystemCatalogs
CreateDatabaseUnlock(t) ==
  /\ cat.result # "crash"
  /\ cat.pc[t] = "CreateDatabase:unlock"
  /\ cat' = [cat EXCEPT !.catalog_mutex = NoThread,
                        !.pc[t] = "CreateDatabase:emplace"]
  /\ UNCHANGED <<ckpt_vars, rec_vars, vis_vars>>

\* Catalog::AddDatabase: its lock_guard takes catalog_mutex for the whole call
AddDatabaseLock(t) ==
  /\ MayStart(t)
  /\ cat.catalog_mutex = NoThread
  /\ cat' = [cat EXCEPT !.catalog_mutex = t,
                        !.databases = @ \cup {AddedDatabaseOid},
                        !.oid[t] = AddedDatabaseOid,
                        !.ops[t] = @ + 1,
                        !.pc[t] = "AddDatabase:emplace"]
  /\ UNCHANGED <<ckpt_vars, rec_vars, vis_vars>>

\* Catalog::AddDatabase returns and its lock_guard releases catalog_mutex
AddDatabaseReturn(t) ==
  /\ cat.result # "crash"
  /\ cat.pc[t] = "AddDatabase:return"
  /\ cat' = [cat EXCEPT !.catalog_mutex = NoThread, !.pc[t] = "idle"]
  /\ UNCHANGED <<ckpt_vars, rec_vars, vis_vars>>

\* Catalog::DropDatabaseWithOid up to the erase: the tables and the pg_database
\* row of a database of the storage manager are dropped
DropDatabaseWithOidDeleteDatabase(t) ==
  /\ MayStart(t)
  /\ \E database_oid \in cat.databases \ {CATALOG_DATABASE_OID} :
       cat' = [cat EXCEPT !.oid[t] = database_oid,
                          !.ops[t] = @ + 1,
                          !.pc[t] = "DropDatabaseWithOid:erase"]
  /\ UNCHANGED <<ckpt_vars, rec_vars, vis_vars>>

\* a modification of catalog_map_ begins: catalog_map_.emplace in
\* BootstrapSystemCatalogs (called by CreateDatabase and AddDatabase) or
\* catalog_map_.erase in DropDatabaseWithOid; the threads that are inside a
\* modification at the same time have raced
ModifyCatalogMap(t) ==
  /\ cat.result # "crash"
  /\ cat.pc[t] \in {"CreateDatabase:emplace", "AddDatabase:emplace",
                    "DropDatabaseWithOid:erase"}
  /\ cat' = [cat EXCEPT !.writing = @ \cup {t},
                        !.raced = IF cat.writing = {} THEN @
                                  ELSE @ \cup cat.writing \cup {t},
                        !.pc[t] = IF cat.pc[t] = "CreateDatabase:emplace"
                                    THEN "CreateDatabase:emplaced"
                                  ELSE IF cat.pc[t] = "AddDatabase:emplace"
                                    THEN "AddDatabase:emplaced"
                                  ELSE "DropDatabaseWithOid:erased"]
  /\ UNCHANGED <<ckpt_vars, rec_vars, vis_vars>>

\* the modification ends; one that raced has any of the RaceOutcomes
CatalogMapModified(t) ==
  /\ cat.result # "crash"
  /\ cat.pc[t] \in {"CreateDatabase:emplaced", "AddDatabase:emplaced",
                    "DropDatabaseWithOid:erased"}
  /\ \E outcome \in RaceOutcomes :
       /\ t \notin cat.raced => outcome = "applied"
       /\ cat' = [cat EXCEPT
                    !.catalog_map_ =
                      IF outcome # "applied" THEN @
                      ELSE IF cat.pc[t] = "DropDatabaseWithOid:erased"
                        THEN @ \ {cat.oid[t]}
                        ELSE @ \cup {cat.oid[t]},
                    !.databases = IF cat.pc[t] = "DropDatabaseWithOid:erased"
                                    THEN @ \ {cat.oid[t]} ELSE @,
                    !.writing = @ \ {t},
                    !.raced = @ \ {t},
                    !.result = IF outcome = "crash" THEN "crash" ELSE @,
                    !.pc[t] = IF cat.pc[t] = "AddDatabase:emplaced"
                                THEN "AddDatabase:return" ELSE "idle"]
  /\ UNCHANGED <<ckpt_vars, rec_vars, vis_vars>>

NextThreads ==
  \E t \in Threads :
    \/ CreateDatabaseGetNextOid(t)
    \/ CreateDatabaseAddToStorageManager(t)
    \/ CreateDatabaseUnlock(t)
    \/ AddDatabaseLock(t)
    \/ AddDatabaseReturn(t)
    \/ DropDatabaseWithOidDeleteDatabase(t)
    \/ ModifyCatalogMap(t)
    \/ CatalogMapModified(t)

SpecThreads == InitThreads /\ [][NextThreads]_vars

\* C26: a thread that is inside an insertion into or a removal from
\* catalog_map_, made by CreateDatabase, AddDatabase or DropDatabaseWithOid,
\* holds catalog_mutex, so no two threads modify the map at the same time
C26_CatalogMapUnderMutex ==
  /\ \A t \in cat.writing : cat.catalog_mutex = t
  /\ Cardinality(cat.writing) <= 1

\* ------------------------------------------------------------------------
\* ConstraintCatalog: pg_constraint and the tables' constraint caches
\* ------------------------------------------------------------------------
\* INVALID_OID is the largest oid_t, (oid_t)-1; it is written -1 here
INVALID_OID == -1
ConstraintTypes == {"PRIMARY", "UNIQUE", "FOREIGN", "CHECK", "EXCLUSION"}
\* the kinds whose constraint is backed by an index
IndexedConstraintTypes == {"PRIMARY", "UNIQUE", "FOREIGN"}
ConstraintOids == {1, 2}
ConstraintTableOids == {OID_FOR_USER_OFFSET, OID_FOR_USER_OFFSET + 1}

\* a catalog::Constraint a caller hands to InsertConstraint; the fields a kind
\* does not use are at their defaults
Constraint(constraint_oid, constraint_type, table_oid, index_oid) ==
  [constraint_oid |-> constraint_oid,
   constraint_name |-> <<"c", constraint_oid>>,
   constraint_type |-> constraint_type,
   table_oid |-> table_oid,
   column_ids |-> IF constraint_type = "CHECK" THEN <<0>> ELSE <<0, 1>>,
   index_oid |-> index_oid,
   fk_sink_table_oid |-> IF constraint_type = "FOREIGN"
                           THEN <<OID_FOR_USER_OFFSET>> ELSE <<>>,
   fk_sink_col_ids |-> IF constraint_type = "FOREIGN" THEN <<<<0, 1>>>> ELSE <<>>,
   fk_update_action |-> IF constraint_type = "FOREIGN" THEN <<"CASCADE">> ELSE <<>>,
   fk_delete_action |-> IF constraint_type = "FOREIGN" THEN <<"NOACTION">> ELSE <<>>,
   check_exp |-> IF constraint_type = "CHECK"
                   THEN <<[first |-> "COMPARE_GREATERTHAN", second |-> IntValue(0)]>>
                   ELSE <<>>]

\* the constraints InsertConstraint is called with: one of any kind, with or
\* without a backing index, and a foreign key with its index; each on either
\* table; and a check of the VARCHAR column against an INTEGER literal
Constraints ==
  {Constraint(1, constraint_type, table_oid, index_oid) :
     constraint_type \in ConstraintTypes, table_oid \in ConstraintTableOids,
     index_oid \in {INVALID_OID, OID_FOR_USER_OFFSET + 2}}
    \cup {Constraint(2, "FOREIGN", table_oid, OID_FOR_USER_OFFSET + 3) :
            table_oid \in ConstraintTableOids}
    \cup {[Constraint(2, "CHECK", table_oid, INVALID_OID) EXCEPT !.column_ids = <<1>>] :
            table_oid \in {OID_FOR_USER_OFFSET}}

\* the column-id list as InsertConstraint writes it: each id in decimal and a space
RECURSIVE ColumnIdsToString(_)
ColumnIdsToString(column_ids) ==
  IF column_ids = <<>> THEN <<>>
  ELSE to_string(Head(column_ids)) \o <<" ">> \o ColumnIdsToString(Tail(column_ids))

\* the loop of std::getline(ss, tok, ' ') and std::stoi(tok) in the constructor
\* of ConstraintCatalogObject: the tokens between spaces, each read as a number
RECURSIVE StringToColumnIds(_, _)
StringToColumnIds(s, tok) ==
  IF s = <<>> THEN (IF tok = <<>> THEN <<>> ELSE <<strtoul(tok)>>)
  ELSE IF Head(s) = " " THEN <<strtoul(tok)>> \o StringToColumnIds(Tail(s), <<>>)
  ELSE StringToColumnIds(Tail(s), Append(tok, Head(s)))

\* the tuple InsertConstraint builds; a column that is not set is <<>>. The
\* check expression is written as its kind, the type of the constrained column
\* and the serialized value
ConstraintTuple(constraint) ==
  [constraint_oid |-> constraint.constraint_oid,
   constraint_name |-> constraint.constraint_name,
   constraint_type |-> constraint.constraint_type,
   table_oid |-> constraint.table_oid,
   column_ids |-> ColumnIdsToString(constraint.column_ids),
   index_oid |-> constraint.index_oid,
   fk_sink_table_oid |-> constraint.fk_sink_table_oid,
   fk_sink_col_ids |-> IF constraint.constraint_type = "FOREIGN"
                         THEN <<ColumnIdsToString(constraint.fk_sink_col_ids[1])>>
                         ELSE <<>>,
   fk_update_action |-> constraint.fk_update_action,
   fk_delete_action |-> constraint.fk_delete_action,
   check_exp_bin |-> IF constraint.constraint_type = "CHECK"
                       THEN <<<<constraint.check_exp[1].first,
                                TableSchema[constraint.column_ids[1] + 1],
                                SerializeTo(constraint.check_exp[1].second)>>>>
                       ELSE <<>>]

\* ConstraintCatalogObject::ConstraintCatalogObject(tile, tupleId): the record
\* read back from a tuple of pg_constraint
ConstraintCatalogObject(tuple) ==
  [constraint_oid |-> tuple.constraint_oid,
   constraint_name |-> tuple.constraint_name,
   constraint_type |-> tuple.constraint_type,
   table_oid |-> tuple.table_oid,
   column_ids |-> StringToColumnIds(tuple.column_ids, <<>>),
   index_oid |-> tuple.index_oid,
   fk_sink_table_oid |-> IF tuple.constraint_type = "FOREIGN"
                           THEN tuple.fk_sink_table_oid ELSE <<>>,
   fk_sink_col_ids |-> IF tuple.constraint_type = "FOREIGN"
                         THEN <<StringToColumnIds(tuple.fk_sink_col_ids[1], <<>>)>>
                         ELSE <<>>,
   fk_update_action |-> IF tuple.constraint_type = "FOREIGN"
                          THEN tuple.fk_update_action ELSE <<>>,
   fk_delete_action |-> IF tuple.constraint_type = "FOREIGN"
                          THEN tuple.fk_delete_action ELSE <<>>,
   check_exp |-> IF tuple.constraint_type = "CHECK"
                   THEN <<[first |-> tuple.check_exp_bin[1][1],
                           second |-> DeserializeFrom(tuple.check_exp_bin[1][3],
                                                      tuple.check_exp_bin[1][2])]>>
                   ELSE <<>>]

\* the constraint catalog of one database: the tuples of pg_constraint as the
\* caller's transaction sees them, the constraint cache of each table's
\* TableCatalogObject (it lives in the transaction's catalog cache), what the
\* last call was and what it returned; constraints is the record of the
\* constraints whose tuples InsertConstraint stored; deleted is the record of what
\* DeleteConstraint(s) removed and nobody inserted again, as pairs of the
\* table oid the call was given and the constraint oid of the tuple
InitConstraint ==
  /\ InitCheckpointIdle
  /\ InitRecoveryIdle
  /\ InitVisibleIdle
  /\ cat = [txn |-> "none", txns |-> 0, calls |-> 0,
            call |-> "none",
            result |-> "none", returned |-> {},
            pg_constraint |-> {},
            constraints |-> {},
            constraint_objects |-> [table_oid \in ConstraintTableOids |-> {}],
            deleted |-> {},
            snapshot |-> <<>>]

\* the process is up and the caller's transaction may make one more call
MayCallConstraint ==
  /\ cat.result # "abort"
  /\ cat.txn = "active"
  /\ cat.calls < MaxCallsPerTxn

\* one more call of the transaction, and its outcome
CalledConstraint(c, call, result, returned) ==
  [c EXCEPT !.calls = @ + 1, !.call = call, !.result = result,
            !.returned = returned]

BeginConstraintTransaction ==
  /\ cat.result # "abort"
  /\ cat.txn = "none"
  /\ cat.txns < MaxTxns
  /\ cat' = [cat EXCEPT !.txn = "active", !.txns = @ + 1, !.calls = 0,
                        !.call = "none", !.result = "none", !.returned = {},
                        !.snapshot = [pg_constraint |-> cat.pg_constraint,
                                      constraints |-> cat.constraints,
                                      deleted |-> cat.deleted]]
  /\ UNCHANGED <<ckpt_vars, rec_vars, vis_vars>>

\* the transaction ends: its catalog cache goes with it, and when it aborts
\* the tuples are those of its beginning
EndConstraintTransaction ==
  /\ cat.result # "abort"
  /\ cat.txn = "active"
  /\ \E committed \in BOOLEAN :
       cat' = [cat EXCEPT
                 !.txn = "none", !.calls = 0, !.call = "none",
                 !.result = "none", !.returned = {}, !.snapshot = <<>>,
                 !.constraint_objects = [table_oid \in ConstraintTableOids |-> {}],
                 !.pg_constraint = IF committed THEN @
                                   ELSE cat.snapshot.pg_constraint,
                 !.constraints = IF committed THEN @
                                 ELSE cat.snapshot.constraints,
                 !.deleted = IF committed THEN @ ELSE cat.snapshot.deleted]
  /\ UNCHANGED <<ckpt_vars, rec_vars, vis_vars>>

\* TableCatalogObject::InsertConstraintObject: the cache takes the object
\* unless it holds one of that constraint oid
InsertConstraintObject(constraint_objects, constraint_object) ==
  IF \E o \in constraint_objects :
       o.constraint_oid = constraint_object.constraint_oid
    THEN constraint_objects
    ELSE constraint_objects \cup {constraint_object}

\* an InsertConstraint that stores a tuple for every kind of constraint
InsertConstraint_AnyKind(constraint, assertions, inserted) ==
  /\ MayCallConstraint
  /\ cat' =
       IF /\ constraint.constraint_type \in IndexedConstraintTypes
          /\ constraint.index_oid = INVALID_OID
          /\ assertions
         THEN CalledConstraint(cat, "InsertConstraint", "abort", {})
       ELSE IF inserted /\ \A tuple \in cat.pg_constraint :
                             tuple.constraint_oid # constraint.constraint_oid
         THEN CalledConstraint(
                [cat EXCEPT !.pg_constraint = @ \cup {ConstraintTuple(constraint)},
                            !.constraints = @ \cup {constraint},
                            !.deleted = {d \in @ : d[2] # constraint.constraint_oid}],
                "InsertConstraint", "true", {})
       ELSE CalledConstraint(cat, "InsertConstraint", "false", {})
  /\ UNCHANGED <<ckpt_vars, rec_vars, vis_vars>>

\* ConstraintCatalog::InsertConstraint. assertions is whether the build keeps
\* PELOTON_ASSERT (a failed assertion aborts the process); inserted is whether
\* InsertTuple succeeds, which it does not when pg_constraint's primary key,
\* the constraint oid, is taken
InsertConstraint(constraint, assertions, inserted) ==
  /\ MayCallConstraint
  /\ cat' =
       IF /\ constraint.constraint_type \in IndexedConstraintTypes
          /\ constraint.index_oid = INVALID_OID
          /\ assertions
         THEN CalledConstraint(cat, "InsertConstraint", "abort", {})
       ELSE IF constraint.constraint_type \notin IndexedConstraintTypes \cup {"CHECK"}
         THEN CalledConstraint(cat, "InsertConstraint", "exception", {})
       ELSE IF inserted /\ \A tuple \in cat.pg_constraint :
                             tuple.constraint_oid # constraint.constraint_oid
         THEN CalledConstraint(
                [cat EXCEPT !.pg_constraint = @ \cup {ConstraintTuple(constraint)},
                            !.constraints = @ \cup {constraint},
                            !.deleted = {d \in @ : d[2] # constraint.constraint_oid}],
                "InsertConstraint", "true", {})
       ELSE CalledConstraint(cat, "InsertConstraint", "false", {})
  /\ UNCHANGED <<ckpt_vars, rec_vars, vis_vars>>

\* ConstraintCatalog::DeleteConstraints: the table's cache is emptied, then the
\* tuples of the table are deleted; deleted is whether DeleteWithIndexScan succeeds
DeleteConstraints(table_oid, deleted) ==
  /\ MayCallConstraint
  /\ LET evicted == [cat EXCEPT !.constraint_objects[table_oid] = {}]
         tuples == {tuple \in cat.pg_constraint : tuple.table_oid = table_oid}
     IN  cat' =
           IF deleted
             THEN CalledConstraint(
                    [evicted EXCEPT
                       !.pg_constraint = @ \ tuples,
                       !.constraints = {c \in @ : ConstraintTuple(c) \notin tuples},
                       !.deleted = @ \cup {<<table_oid, tuple.constraint_oid>> : tuple \in tuples}],
                    "DeleteConstraints", "true", {})
             ELSE CalledConstraint(evicted, "DeleteConstraints", "false", {})
  /\ UNCHANGED <<ckpt_vars, rec_vars, vis_vars>>

\* a DeleteConstraint that leaves the table's cache as it is
DeleteConstraint_NoEviction(table_oid, constraint_oid, deleted) ==
  /\ MayCallConstraint
  /\ LET tuples == {tuple \in cat.pg_constraint :
                      tuple.constraint_oid = constraint_oid}
     IN  cat' =
           IF deleted
             THEN CalledConstraint(
                    [cat EXCEPT
                       !.pg_constraint = @ \ tuples,
                       !.constraints = {c \in @ : ConstraintTuple(c) \notin tuples},
                       !.deleted = @ \cup {<<table_oid, tuple.constraint_oid>> : tuple \in tuples}],
                    "DeleteConstraint", "true", {})
             ELSE CalledConstraint(cat, "DeleteConstraint", "false", {})
  /\ UNCHANGED <<ckpt_vars, rec_vars, vis_vars>>

\* ConstraintCatalog::DeleteConstraint: the constraint is evicted from the
\* table's cache, then the tuple of that constraint oid is deleted
DeleteConstraint(table_oid, constraint_oid, deleted) ==
  /\ MayCallConstraint
  /\ LET evicted == [cat EXCEPT !.constraint_objects[table_oid] =
                                  {o \in @ : o.constraint_oid # constraint_oid}]
         tuples == {tuple \in cat.pg_constraint :
                      tuple.constraint_oid = constraint_oid}
     IN  cat' =
           IF deleted
             THEN CalledConstraint(
                    [evicted EXCEPT
                       !.pg_constraint = @ \ tuples,
                       !.constraints = {c \in @ : ConstraintTuple(c) \notin tuples},
                       !.deleted = @ \cup {<<table_oid, tuple.constraint_oid>> : tuple \in tuples}],
                    "DeleteConstraint", "true", {})
             ELSE CalledConstraint(evicted, "DeleteConstraint", "false", {})
  /\ UNCHANGED <<ckpt_vars, rec_vars, vis_vars>>

\* ConstraintCatalog::GetConstraintObjects: the table's cache when it is not
\* empty; otherwise the tuples of the table are read into the cache
GetConstraintObjects(table_oid) ==
  /\ MayCallConstraint
  /\ LET cached == cat.constraint_objects[table_oid]
         scanned == {ConstraintCatalogObject(tuple) :
                       tuple \in {tuple \in cat.pg_constraint :
                                    tuple.table_oid = table_oid}}
         constraint_objects == IF cached # {} THEN cached ELSE scanned
     IN  cat' = CalledConstraint(
                  [cat EXCEPT !.constraint_objects[table_oid] = constraint_objects],
                  "GetConstraintObjects", "none", constraint_objects)
  /\ UNCHANGED <<ckpt_vars, rec_vars, vis_vars>>

\* ConstraintCatalog::GetConstraintObject: the object of the table's cache, or
\* the tuple of that constraint oid read into the table's cache, or nullptr
GetConstraintObject(table_oid, constraint_oid) ==
  /\ MayCallConstraint
  /\ LET cached == {o \in cat.constraint_objects[table_oid] :
                      o.constraint_oid = constraint_oid}
         scanned == {ConstraintCatalogObject(tuple) :
                       tuple \in {tuple \in cat.pg_constraint :
                                    tuple.constraint_oid = constraint_oid}}
     IN  cat' =
           IF cached # {}
             THEN CalledConstraint(cat, "GetConstraintObject", "none", cached)
           ELSE IF Cardinality(scanned) = 1
             THEN CalledConstraint(
                    [cat EXCEPT !.constraint_objects[table_oid] =
                       InsertConstraintObject(@, CHOOSE o \in scanned : TRUE)],
                    "GetConstraintObject", "none",
                    scanned)
           ELSE CalledConstraint(cat, "GetConstraintObject", "nullptr", {})
  /\ UNCHANGED <<ckpt_vars, rec_vars, vis_vars>>

NextConstraint ==
  \/ BeginConstraintTransaction
  \/ EndConstraintTransaction
  \/ \E constraint \in Constraints, assertions \in BOOLEAN, inserted \in BOOLEAN :
       InsertConstraint(constraint, assertions, inserted)
  \/ \E table_oid \in ConstraintTableOids, deleted \in BOOLEAN :
       DeleteConstraints(table_oid, deleted)
  \/ \E table_oid \in ConstraintTableOids, constraint_oid \in ConstraintOids,
        deleted \in BOOLEAN :
       DeleteConstraint(table_oid, constraint_oid, deleted)
  \/ \E table_oid \in ConstraintTableOids : GetConstraintObjects(table_oid)
  \/ \E table_oid \in ConstraintTableOids, constraint_oid \in ConstraintOids :
       GetConstraintObject(table_oid, constraint_oid)

SpecConstraint == InitConstraint /\ [][NextConstraint]_vars

\* the constraints whose kind is none of those InsertConstraint stores
UnexpectedConstraints == {constraint \in Constraints : constraint.constraint_type \notin {"PRIMARY", "UNIQUE", "FOREIGN", "CHECK"}}

\* C27: an InsertConstraint called with a constraint that is not PRIMARY,
\* UNIQUE, FOREIGN or CHECK (EXCLUSION) raises CatalogException and leaves
\* pg_constraint as it was
C27_UnexpectedKindRaises ==
  [][\A constraint \in UnexpectedConstraints, assertions \in BOOLEAN, inserted \in BOOLEAN :
       InsertConstraint(constraint, assertions, inserted)
         => /\ cat'.result = "exception"
            /\ cat'.pg_constraint = cat.pg_constraint]_vars

\* InsertConstraint has raised in a transaction that had stored a constraint before
C27_Witness ==
  /\ cat.call = "InsertConstraint"
  /\ cat.result = "exception"
  /\ cat.pg_constraint # {}
  /\ cat.pg_constraint # cat.snapshot.pg_constraint

\* C28: every PRIMARY, UNIQUE or FOREIGN row of pg_constraint has an index oid
\* other than INVALID_OID
C28_IndexedRowsHaveIndex ==
  \A tuple \in cat.pg_constraint :
    tuple.constraint_type \in IndexedConstraintTypes => tuple.index_oid # INVALID_OID

\* C29: after DeleteConstraint(table, id) or DeleteConstraints(table) removed
\* a constraint, GetConstraintObjects(table) and GetConstraintObject(table, id)
\* do not return it, in the same transaction or in a later one
C29_DeletedNeverReturned ==
  [][\A table_oid \in ConstraintTableOids :
       (\/ GetConstraintObjects(table_oid)
        \/ \E constraint_oid \in ConstraintOids :
             GetConstraintObject(table_oid, constraint_oid))
         => \A constraint_object \in cat'.returned :
              <<table_oid, constraint_object.constraint_oid>> \notin cat.deleted]_vars

\* GetConstraintObjects has returned the constraint that is left of a table
\* after another constraint of that table was deleted in the same transaction
C29_Witness ==
  /\ cat.call = "GetConstraintObjects"
  /\ \E constraint_object \in cat.returned :
       \E d \in cat.deleted \ cat.snapshot.deleted :
         d[1] = constraint_object.table_oid

\* C30: GetConstraintObjects(table) returns exactly the constraints whose
\* tuples pg_constraint holds for that table, whatever calls preceded it
C30_GetConstraintObjectsExact ==
  [][\A table_oid \in ConstraintTableOids :
       GetConstraintObjects(table_oid)
         => cat'.returned =
              {ConstraintCatalogObject(tuple) :
                 tuple \in {tuple \in cat.pg_constraint : tuple.table_oid = table_oid}}]_vars

\* C31: a constraint written by InsertConstraint and read back through
\* GetConstraintObjects has the same oid, name, kind, table oid, index oid and
\* column ids in order, the same sink table, sink columns and actions when it
\* is a foreign key, and the same operator and an equal value when it is a check
C31_ConstraintRoundTrip ==
  [][\A table_oid \in ConstraintTableOids :
       GetConstraintObjects(table_oid)
         => \A constraint_object \in cat'.returned :
              \A constraint \in cat.constraints :
                constraint.constraint_oid = constraint_object.constraint_oid
                  => constraint_object = constraint]_vars

\* ------------------------------------------------------------------------
\* Catalog::GetFunction
\* ------------------------------------------------------------------------
MaxGetFunctionCalls == 2

\* the rows pg_language may hold, under the OIDs of the model
FunctionLanguages ==
  {[oid |-> 1, name |-> "internal"], [oid |-> 2, name |-> "plpgsql"],
   [oid |-> 3, name |-> "c"]}

\* the rows pg_proc may hold: a builtin function, a UDF and a function of
\* another language
FunctionProcs ==
  {[oid |-> 1, name |-> "abs", argument_types |-> <<"DECIMAL">>, prolang |-> 1,
    src |-> "Abs", ret_type |-> "DECIMAL"],
   [oid |-> 2, name |-> "udf", argument_types |-> <<"INTEGER">>, prolang |-> 2,
    src |-> "udf", ret_type |-> "INTEGER"],
   [oid |-> 3, name |-> "ext", argument_types |-> <<"INTEGER">>, prolang |-> 3,
    src |-> "ext", ret_type |-> "INTEGER"]}

FunctionNames == {"abs", "udf", "ext"}
FunctionArgumentTypes == {<<"DECIMAL">>, <<"INTEGER">>}

\* what the process does when GetFunction calls a method through a null pointer
NullDereferenceOutcomes == {"crash", "exception"}

\* the catalogs GetFunction reads, and the transactions it has begun and ended
InitFunction ==
  /\ InitCheckpointIdle
  /\ InitRecoveryIdle
  /\ InitVisibleIdle
  /\ \E pg_language \in SUBSET FunctionLanguages, pg_proc \in SUBSET FunctionProcs,
        builtin \in SUBSET {"Abs"},
        plpgsql \in {{}, {[oid |-> 2, udf |-> FALSE]}, {[oid |-> 2, udf |-> TRUE]}} :
       cat = [pg_language |-> pg_language,
              pg_proc |-> pg_proc,
              BuiltInFunctions |-> builtin,
              PlpgsqlFunctions |-> plpgsql,
              calls |-> 0,
              call |-> <<>>,
              result |-> "none",
              begun |-> 0,
              committed |-> 0,
              aborted |-> 0]

\* ProcCatalog::GetProcByName: the rows of that name and those argument types
GetProcByName(c, name, argument_types) ==
  {r \in c.pg_proc : r.name = name /\ r.argument_types = argument_types}

\* ProcCatalogObject::GetLanguage: the rows of pg_language under the OID
GetLanguage(c, proc_catalog_obj) ==
  {r \in c.pg_language : r.oid = proc_catalog_obj.prolang}

\* function::BuiltInFunctions::GetFuncByName: whether the map has an address
GetFuncByName(c, func_name) == func_name \in c.BuiltInFunctions

\* function::PlpgsqlFunctions::GetFuncContextByOid: the contexts under the OID
GetFuncContextByOid(c, oid) == {r \in c.PlpgsqlFunctions : r.oid = oid}

\* the transaction GetFunction began is ended, and the call's outcome
FunctionEnded(c, name, argument_types, ended, result) ==
  [c EXCEPT !.calls = @ + 1,
            !.call = <<name, argument_types>>,
            !.begun = @ + 1,
            !.committed = IF ended = "commit" THEN @ + 1 ELSE @,
            !.aborted = IF ended = "abort" THEN @ + 1 ELSE @,
            !.result = result]

\* Catalog::GetFunction. Where the language is missing the transaction is
\* aborted and the message of the exception is then built through the null
\* language pointer; where no code context is registered GetUDF is called
\* through the null context pointer, with the transaction still open
GetFunction(name, argument_types, outcome) ==
  /\ cat.result # "crash"
  /\ cat.calls < MaxGetFunctionCalls
  /\ LET procs == GetProcByName(cat, name, argument_types)
         proc_catalog_obj == CHOOSE r \in procs : TRUE
         langs == GetLanguage(cat, proc_catalog_obj)
         lang_catalog_obj == CHOOSE r \in langs : TRUE
         contexts == GetFuncContextByOid(cat, proc_catalog_obj.oid)
         func_context_ == CHOOSE r \in contexts : TRUE
     IN  cat' =
           IF procs = {}
             THEN FunctionEnded(cat, name, argument_types, "abort", "exception")
           ELSE IF langs = {}
             THEN FunctionEnded(cat, name, argument_types, "abort", outcome)
           ELSE IF lang_catalog_obj.name \notin {"internal", "plpgsql"}
             THEN FunctionEnded(cat, name, argument_types, "abort", "exception")
           ELSE IF lang_catalog_obj.name = "internal"
             THEN IF ~GetFuncByName(cat, proc_catalog_obj.src)
                    THEN FunctionEnded(cat, name, argument_types, "abort", "exception")
                    ELSE FunctionEnded(cat, name, argument_types, "commit", "returned")
           ELSE IF contexts = {}
             THEN IF outcome = "crash"
                    THEN FunctionEnded(cat, name, argument_types, "none", "crash")
                    ELSE FunctionEnded(cat, name, argument_types, "abort", "exception")
           ELSE IF ~func_context_.udf
             THEN FunctionEnded(cat, name, argument_types, "abort", "exception")
           ELSE FunctionEnded(cat, name, argument_types, "commit", "returned")
  /\ UNCHANGED <<ckpt_vars, rec_vars, vis_vars>>

NextFunction ==
  \E name \in FunctionNames, argument_types \in FunctionArgumentTypes,
     outcome \in NullDereferenceOutcomes :
    GetFunction(name, argument_types, outcome)

SpecFunction == InitFunction /\ [][NextFunction]_vars

\* the cases in which GetFunction is to fail: no procedure of that name and
\* those argument types, its language missing or neither internal nor plpgsql,
\* or no native function, no code context or no UDF in the context
FunctionUnresolved(c, name, argument_types) ==
  LET procs == GetProcByName(c, name, argument_types)
      proc_catalog_obj == CHOOSE r \in procs : TRUE
      langs == GetLanguage(c, proc_catalog_obj)
      lang_catalog_obj == CHOOSE r \in langs : TRUE
      contexts == GetFuncContextByOid(c, proc_catalog_obj.oid)
  IN  IF procs = {} THEN TRUE
      ELSE IF langs = {} THEN TRUE
      ELSE IF lang_catalog_obj.name = "internal"
        THEN ~GetFuncByName(c, proc_catalog_obj.src)
      ELSE IF lang_catalog_obj.name = "plpgsql"
        THEN \A r \in contexts : ~r.udf
      ELSE TRUE

\* C32: GetFunction ends the transaction it begins exactly once: it aborts it
\* and raises CatalogException when the function cannot be resolved, and
\* commits it and returns otherwise
C32_GetFunctionEndsOnce ==
  [][\A name \in FunctionNames, argument_types \in FunctionArgumentTypes,
        outcome \in NullDereferenceOutcomes :
       GetFunction(name, argument_types, outcome)
         => /\ cat'.begun = cat.begun + 1
            /\ cat'.committed + cat'.aborted = cat.committed + cat.aborted + 1
            /\ IF FunctionUnresolved(cat, name, argument_types)
                 THEN cat'.aborted = cat.aborted + 1 /\ cat'.result = "exception"
                 ELSE cat'.committed = cat.committed + 1 /\ cat'.result = "returned"]_vars

\* ------------------------------------------------------------------------
\* Checkpoints of a catalog that other transactions change
\* ------------------------------------------------------------------------
\* the rows the user database and its tables may have: the object exists
\* throughout, is created by a transaction that commits at 2, is dropped by one
\* that commits at 2, or is created by a transaction that has not committed
SnapshotEntries ==
  {Existing, CatalogEntry(2, MAX_CID), CatalogEntry(0, 2), CatalogEntry(MAX_CID, MAX_CID)}

\* the engine whose user database and user tables were created and dropped by
\* transactions that commit before, while and after the checkpoint cycles run;
\* no file operation fails
InitSnapshot ==
  /\ brain = FALSE
  /\ \E database_entry \in SnapshotEntries \ {CatalogEntry(MAX_CID, MAX_CID)},
        entries \in [1..MaxTables -> SnapshotEntries] :
       storage = <<CatalogDatabase(FALSE),
                   [UserDatabase(1) EXCEPT
                      !.catalog = database_entry,
                      !.tables = [i \in 1..MaxTables |->
                                    [UserDatabase(1).tables[i] EXCEPT
                                       !.catalog = entries[i]]]]>>
  /\ dirs = <<>>
  /\ clock = 0
  /\ is_running_ = FALSE
  /\ pc = "none"
  /\ count = 0
  /\ begin_cid = 0
  /\ begin_epoch_id = 0
  /\ idx = 0
  /\ stop_pc = "none"
  /\ io_failures = MaxIOFailures
  /\ crashes = 0
  /\ cycle_io_failed = FALSE
  /\ good_cycle_done = FALSE
  /\ cycle_done = FALSE
  /\ InitRecoveryIdle
  /\ InitVisibleIdle
  /\ InitCatalogIdle

SpecSnapshot == InitSnapshot /\ [][Next]_vars

\* the data files of user tables among the files of a generation
UserTableFiles(files) ==
  {n \in DOMAIN files : n # CatalogFileName /\ n[1] # CATALOG_DATABASE_NAME}

\* the names of the data files of the tables that the transaction reading at
\* cid sees in the databases it sees, the catalog database apart
SeenTableFiles(st, cid) ==
  {GetCheckpointFileName(st[d].name, st[d].tables[t].name) :
     <<d, t>> \in {<<d, t>> \in (1..Len(st)) \X (1..MaxTables) :
                     /\ st[d].oid # CATALOG_DATABASE_OID
                     /\ CatalogVisible(st[d], cid)
                     /\ t <= Len(st[d].tables)
                     /\ CatalogVisible(st[d].tables[t], cid)}}

\* the (database oid, table oid) pairs of the tables that the transaction
\* reading at cid sees in the databases it sees, the catalog database apart
SeenTables(st, cid) ==
  {<<st[d].oid, st[d].tables[t].oid>> :
     <<d, t>> \in {<<d, t>> \in (1..Len(st)) \X (1..MaxTables) :
                     /\ st[d].oid # CATALOG_DATABASE_OID
                     /\ CatalogVisible(st[d], cid)
                     /\ t <= Len(st[d].tables)
                     /\ CatalogVisible(st[d].tables[t], cid)}}

\* the (database oid, table oid) pairs a catalog file describes, and the oids
\* of the databases it describes
CatalogFileTables(file) ==
  IF file.buffers = <<>> THEN {}
  ELSE {<<file.buffers[1].dbs[i].oid, file.buffers[1].dbs[i].tables[t].oid>> :
          <<i, t>> \in {<<i, t>> \in (1..file.buffers[1].db_count) \X (1..MaxTables) :
                          t <= Len(file.buffers[1].dbs[i].tables)}}
CatalogFileDatabases(file) ==
  IF file.buffers = <<>> THEN {}
  ELSE {file.buffers[1].dbs[i].oid : i \in 1..file.buffers[1].db_count}

\* the generations whose cycle's read id is known: the promoted ones, named by
\* it, and the working directory of the cycle that is writing
SnapshotGenerations ==
  {<<n, strtoul(n)>> : n \in DOMAIN dirs \ {checkpoint_working_dir_name_}}
    \cup (IF /\ pc \in {"user_tables", "catalog_file", "catalog_tables", "end", "move"}
             /\ checkpoint_working_dir_name_ \in DOMAIN dirs
            THEN {<<checkpoint_working_dir_name_, begin_cid>>} ELSE {})

\* C33: a generation holds user-table data files, and entries of the catalog
\* file, only for databases other than the catalog database that the cycle's
\* transaction sees and for the tables it sees in them; and the user-table pass
\* of recovery loads no table of the catalog database
C33_OnlyVisibleUserTables ==
  /\ \A g \in SnapshotGenerations :
       /\ UserTableFiles(dirs[g[1]].files) \subseteq SeenTableFiles(storage, g[2])
       /\ CatalogFileName \in DOMAIN dirs[g[1]].files
            => /\ CatalogFileTables(dirs[g[1]].files[CatalogFileName])
                    \subseteq SeenTables(storage, g[2])
               /\ \A database_oid \in CatalogFileDatabases(dirs[g[1]].files[CatalogFileName]) :
                    /\ database_oid # CATALOG_DATABASE_OID
                    /\ \E d \in 1..Len(storage) :
                         storage[d].oid = database_oid /\ CatalogVisible(storage[d], g[2])
  /\ rec_pc = "user_tables"
       => \A i \in 1..Len(UserRecoveryTables(rec_storage)) :
            rec_storage[UserRecoveryTables(rec_storage)[i][1]].oid # CATALOG_DATABASE_OID

\* recovery is in its user-table pass, over a generation that holds data files
\* of user tables and was written by a transaction that did not see one of the
\* tables of the user database
C33_Witness ==
  /\ rec_pc = "user_tables"
  /\ to_string(rec_epoch) \in DOMAIN dirs
  /\ UserTableFiles(dirs[to_string(rec_epoch)].files) # {}
  /\ \E d \in 1..Len(storage) :
       /\ storage[d].oid # CATALOG_DATABASE_OID
       /\ \E t \in 1..Len(storage[d].tables) :
            ~CatalogVisible(storage[d].tables[t], rec_epoch)

\* the names of the data files of the tables a catalog file describes
CatalogFileTableFiles(file) ==
  IF file.buffers = <<>> THEN {}
  ELSE {GetCheckpointFileName(file.buffers[1].dbs[i].name,
                              file.buffers[1].dbs[i].tables[t].name) :
          <<i, t>> \in {<<i, t>> \in (1..file.buffers[1].db_count) \X (1..MaxTables) :
                          t <= Len(file.buffers[1].dbs[i].tables)}}

\* C34: in every promoted generation the user tables that the catalog file
\* describes are exactly the user tables that have a data file
C34_CatalogFileMatchesDataFiles ==
  \A n \in DOMAIN dirs \ {checkpoint_working_dir_name_} :
    UserTableFiles(dirs[n].files)
      = (IF CatalogFileName \in DOMAIN dirs[n].files
           THEN CatalogFileTableFiles(dirs[n].files[CatalogFileName]) ELSE {})

\* C35: between transactions catalog_map_ has an entry for exactly the databases
\* that have a row in pg_database, whether the transactions that created and
\* dropped databases committed or aborted
C35_RegistryMatchesDatabaseRows ==
  (CatalogUp /\ cat.txn = "none")
    => DOMAIN cat.catalog_map_ = {r.oid : r \in cat.pg_database}

\* C36: for a transaction id other than INVALID_TXN_ID and commit ids from 0 to
\* MAX_CID, IsVisible answers exactly whether tuple_begin_cid <= begin_cid and
\* begin_cid < tuple_end_cid; the test for tuple_begin_cid = MAX_CID changes nothing
C36_IsVisibleIsInterval ==
  (vis_out # <<>> /\ vis_in.tuple_txn_id # INVALID_TXN_ID)
    => vis_out[1] = (/\ vis_in.tuple_begin_cid <= vis_in.begin_cid
                     /\ vis_in.begin_cid < vis_in.tuple_end_cid)

\* IsVisible was called for a version owned by another transaction whose begin
\* commit id is MAX_CID, read at MAX_CID, and answered false
C36_Witness ==
  /\ vis_out = <<FALSE>>
  /\ vis_in.tuple_txn_id \notin {INVALID_TXN_ID, INITIAL_TXN_ID}
  /\ vis_in.tuple_begin_cid = MAX_CID
  /\ vis_in.begin_cid = MAX_CID

\* ------------------------------------------------------------------------
\* Stopping the checkpoint thread (a process that does not crash)
\* ------------------------------------------------------------------------
\* StopCheckpointing called while the clock of the model has a second left for
\* the sleep the thread may be in
StopCheckpointingInTime == clock < MaxEpoch /\ StopCheckpointing

\* the steps of the thread running PerformCheckpointing
ThreadStep ==
  \/ ThreadCheckRunning
  \/ ThreadSleep
  \/ ThreadCreateWorkingDirectory
  \/ ThreadBeginTransaction
  \/ ThreadUserTable
  \/ ThreadCatalogFile
  \/ ThreadCatalogTables
  \/ ThreadEndTransaction
  \/ ThreadMoveWorkingDirectory
  \/ ThreadRemoveOldCheckpoints

NextStop ==
  \/ StartCheckpointing
  \/ StopCheckpointingInTime
  \/ StopCheckpointingReturn
  \/ ThreadStep

\* the thread is scheduled as long as it has a step to take, every step of a
\* cycle ends, and join returns once the thread has exited
SpecStop ==
  Init /\ [][NextStop]_vars /\ WF_vars(ThreadStep) /\ WF_vars(StopCheckpointingReturn)

\* C37: once StopCheckpointing has cleared is_running_, the thread begins at most
\* one more cycle (only out of the sleep it was in, for the loop head is left
\* only by exiting and no sleep is entered), it exits, and StopCheckpointing
\* returns
C37_StopReturns ==
  /\ [][stop_pc = "joining"
          => /\ (pc = "check" /\ pc' # "check") => pc' = "exited"
             /\ (pc' = "mkdir" /\ pc # "mkdir") => pc = "sleep"
             /\ (pc' = "sleep") => pc = "sleep"
             /\ pc = "exited" => pc' = "exited"]_vars
  /\ (stop_pc = "joining") ~> (pc = "exited")
  /\ (stop_pc = "joining") ~> (stop_pc = "returned")

\* StopCheckpointing has returned after the thread began a cycle while the flag
\* was already cleared: the cycle's transaction began after the last second the
\* flag was set in, and the cycle was carried through
C37_Witness ==
  /\ stop_pc = "returned"
  /\ pc = "exited"
  /\ cycle_done
  /\ clock = MaxEpoch

\* every table that has a row in pg_table has a row in pg_layout for the
\* default layout of its physical table
DefaultLayoutHasRow(c) ==
  \A r \in c.pg_table :
    <<r.database_oid, r.oid>> \in DOMAIN c.tables
      => GetLayoutWithOid(c, r.database_oid, r.oid,
                          c.tables[<<r.database_oid, r.oid>>].default_layout) # {}

\* the calls C38 is about
LayoutCalls == {"CreateTable", "CreateLayout", "CreateDefaultLayout", "DropLayout"}

\* C38: a successful CreateTable, CreateLayout, CreateDefaultLayout or DropLayout
\* leaves every table with a pg_layout row for its current default layout, if
\* every table had one before; so it is after any sequence of them, also once
\* the row of the row-store layout has been dropped
C38_DefaultLayoutHasRow ==
  /\ DefaultLayoutHasRow(cat)
  /\ [][(/\ cat'.call \in LayoutCalls
         /\ cat'.result = "SUCCESS"
         /\ DefaultLayoutHasRow(cat))
          => DefaultLayoutHasRow(cat')]_vars

\* a DropLayout has just succeeded on a table whose default layout is not the
\* row store and whose row-store layout has no row in pg_layout
C38_Witness ==
  /\ cat.call = "DropLayout"
  /\ cat.result = "SUCCESS"
  /\ \E r \in cat.pg_table :
       /\ <<r.database_oid, r.oid>> \in DOMAIN cat.tables
       /\ cat.tables[<<r.database_oid, r.oid>>].default_layout # ROW_STORE_LAYOUT_OID
       /\ GetLayoutWithOid(cat, r.database_oid, r.oid, ROW_STORE_LAYOUT_OID) = {}
       /\ GetLayoutWithOid(cat, r.database_oid, r.oid,
                           cat.tables[<<r.database_oid, r.oid>>].default_layout) # {}

\* ------------------------------------------------------------------------
\* Catalog::DropTable on tables that have constraints
\* ------------------------------------------------------------------------
\* the constraint catalog of InitConstraint together with the rows of pg_table
\* of the tables the constraints are on
InitDropTable ==
  /\ InitCheckpointIdle
  /\ InitRecoveryIdle
  /\ InitVisibleIdle
  /\ cat = [txn |-> "none", txns |-> 0, calls |-> 0,
            call |-> "none",
            result |-> "none", returned |-> {},
            pg_table |-> ConstraintTableOids,
            pg_constraint |-> {},
            constraints |-> {},
            constraint_objects |-> [table_oid \in ConstraintTableOids |-> {}],
            deleted |-> {},
            snapshot |-> <<>>]

BeginTableTransaction ==
  /\ cat.result # "abort"
  /\ cat.txn = "none"
  /\ cat.txns < MaxTxns
  /\ cat' = [cat EXCEPT !.txn = "active", !.txns = @ + 1, !.calls = 0,
                        !.call = "none", !.result = "none", !.returned = {},
                        !.snapshot = [pg_table |-> cat.pg_table,
                                      pg_constraint |-> cat.pg_constraint,
                                      constraints |-> cat.constraints,
                                      deleted |-> cat.deleted]]
  /\ UNCHANGED <<ckpt_vars, rec_vars, vis_vars>>

\* the transaction ends; when it aborts the rows are those of its beginning
EndTableTransaction ==
  /\ cat.result # "abort"
  /\ cat.txn = "active"
  /\ \E committed \in BOOLEAN :
       cat' = [cat EXCEPT
                 !.txn = "none", !.calls = 0, !.call = "none",
                 !.result = "none", !.returned = {}, !.snapshot = <<>>,
                 !.constraint_objects = [table_oid \in ConstraintTableOids |-> {}],
                 !.pg_table = IF committed THEN @ ELSE cat.snapshot.pg_table,
                 !.pg_constraint = IF committed THEN @
                                   ELSE cat.snapshot.pg_constraint,
                 !.constraints = IF committed THEN @
                                 ELSE cat.snapshot.constraints,
                 !.deleted = IF committed THEN @ ELSE cat.snapshot.deleted]
  /\ UNCHANGED <<ckpt_vars, rec_vars, vis_vars>>

\* Catalog::DropTable, the overload taking OIDs (catalog.cpp 942-989), seen from
\* the constraint catalog: the triggers, indexes, columns and layouts of the
\* table and its row in pg_table are deleted, and pg_constraint is not among the
\* catalogs the function touches; a table without a row gives a null table_object
\* that line 954 dereferences
DropTableWithConstraints(table_oid) ==
  /\ MayCallConstraint
  /\ cat' = IF table_oid \notin cat.pg_table
              THEN CalledConstraint(cat, "DropTable", "abort", {})
              ELSE CalledConstraint([cat EXCEPT !.pg_table = @ \ {table_oid}],
                                    "DropTable", "SUCCESS", {})
  /\ UNCHANGED <<ckpt_vars, rec_vars, vis_vars>>

NextDropTable ==
  \/ BeginTableTransaction
  \/ EndTableTransaction
  \/ \E constraint \in Constraints, assertions \in BOOLEAN, inserted \in BOOLEAN :
       InsertConstraint(constraint, assertions, inserted)
  \/ \E table_oid \in ConstraintTableOids : DropTableWithConstraints(table_oid)

SpecDropTable == InitDropTable /\ [][NextDropTable]_vars

\* C39: after a successful DropTable no row of pg_constraint has the dropped
\* table's oid as its table oid
C39_DropTableLeavesNoConstraint ==
  [][\A table_oid \in ConstraintTableOids :
       (DropTableWithConstraints(table_oid) /\ cat'.result = "SUCCESS")
         => \A tuple \in cat'.pg_constraint : tuple.table_oid # table_oid]_vars

\* ------------------------------------------------------------------------
\* Catalog::Bootstrap called by two threads
\* ------------------------------------------------------------------------
\* the languages InitializeLanguages inserts
BootstrapLanguages == {"internal", "plpgsql"}

\* where each thread is in Bootstrap (pc), the two function-local static flags,
\* and the rows of pg_language and pg_proc with the thread whose transaction
\* inserted them (the builtin functions of one InitializeFunctions are one entry)
InitBootstrapThreads ==
  /\ InitCheckpointIdle
  /\ InitRecoveryIdle
  /\ InitVisibleIdle
  /\ cat = [pc |-> [t \in Threads |-> "idle"],
            initialized |-> [languages |-> FALSE, functions |-> FALSE],
            pg_language |-> {},
            pg_proc |-> {}]

\* the thread's position becomes next
ThreadAt(c, t, next) == [c EXCEPT !.pc[t] = next]

\* Bootstrap, lines 292-309: the thread arrives at InitializeLanguages
BootstrapEnter(t) ==
  /\ cat.pc[t] = "idle"
  /\ cat' = ThreadAt(cat, t, "languages_test")
  /\ UNCHANGED <<ckpt_vars, rec_vars, vis_vars>>

\* InitializeLanguages, lines 1436-1439: the static flag is read without a lock
InitializeLanguagesTest(t) ==
  /\ cat.pc[t] = "languages_test"
  /\ cat' = ThreadAt(cat, t, IF cat.initialized.languages THEN "functions_test"
                             ELSE "insert_internal")
  /\ UNCHANGED <<ckpt_vars, rec_vars, vis_vars>>

\* lines 1441-1446 and 1448-1453: InsertLanguage; when it fails the transaction
\* is aborted and CatalogException raised
InitializeLanguagesInsert(t, name, inserted) ==
  /\ cat.pc[t] = IF name = "internal" THEN "insert_internal" ELSE "insert_plpgsql"
  /\ cat' = IF inserted
              THEN ThreadAt([cat EXCEPT !.pg_language =
                                          @ \cup {[name |-> name, by |-> t]}],
                            t, IF name = "internal" THEN "insert_plpgsql"
                               ELSE "languages_commit")
              ELSE ThreadAt([cat EXCEPT !.pg_language = {r \in @ : r.by # t}],
                            t, "raised")
  /\ UNCHANGED <<ckpt_vars, rec_vars, vis_vars>>

\* lines 1454-1455: the transaction commits and the flag is set
InitializeLanguagesCommit(t) ==
  /\ cat.pc[t] = "languages_commit"
  /\ cat' = ThreadAt([cat EXCEPT !.initialized.languages = TRUE], t, "functions_test")
  /\ UNCHANGED <<ckpt_vars, rec_vars, vis_vars>>

\* InitializeFunctions, lines 1460-1469: the static flag is read without a
\* lock, and the language 'internal' is looked up
InitializeFunctionsTest(t) ==
  /\ cat.pc[t] = "functions_test"
  /\ cat' = ThreadAt(cat, t,
                     IF cat.initialized.functions THEN "done"
                     ELSE IF \A r \in cat.pg_language : r.name # "internal"
                       THEN "raised"
                     ELSE "add_functions")
  /\ UNCHANGED <<ckpt_vars, rec_vars, vis_vars>>

\* lines 1471-1859: the calls of AddBuiltinFunction; when an InsertProc fails
\* CatalogException is raised and the transaction aborted
InitializeFunctionsAdd(t, inserted) ==
  /\ cat.pc[t] = "add_functions"
  /\ cat' = IF inserted
              THEN ThreadAt([cat EXCEPT !.pg_proc = @ \cup {[by |-> t]}],
                            t, "functions_commit")
              ELSE ThreadAt(cat, t, "raised")
  /\ UNCHANGED <<ckpt_vars, rec_vars, vis_vars>>

\* lines 1860-1861: the transaction commits and the flag is set; Bootstrap ends
\* with the counters' reset
InitializeFunctionsCommit(t) ==
  /\ cat.pc[t] = "functions_commit"
  /\ cat' = ThreadAt([cat EXCEPT !.initialized.functions = TRUE], t, "done")
  /\ UNCHANGED <<ckpt_vars, rec_vars, vis_vars>>

NextBootstrapThreads ==
  \E t \in Threads :
    \/ BootstrapEnter(t)
    \/ InitializeLanguagesTest(t)
    \/ \E name \in BootstrapLanguages, inserted \in BOOLEAN :
         InitializeLanguagesInsert(t, name, inserted)
    \/ InitializeLanguagesCommit(t)
    \/ InitializeFunctionsTest(t)
    \/ \E inserted \in BOOLEAN : InitializeFunctionsAdd(t, inserted)
    \/ InitializeFunctionsCommit(t)

SpecBootstrapThreads == InitBootstrapThreads /\ [][NextBootstrapThreads]_vars

\* C40: with two threads in Bootstrap, each of the languages 'internal' and
\* 'plpgsql' and the builtin functions are inserted once at most, and the two
\* threads are never both past the test of a one-time flag and before its setting
C40_ConcurrentBootstrapInsertsOnce ==
  /\ \A name \in BootstrapLanguages :
       Cardinality({r \in cat.pg_language : r.name = name}) <= 1
  /\ Cardinality(cat.pg_proc) <= 1
  /\ ~(\A t \in Threads :
         cat.pc[t] \in {"insert_internal", "insert_plpgsql", "languages_commit"})
  /\ ~(\A t \in Threads : cat.pc[t] \in {"add_functions", "functions_commit"})

=============================================================================
